---------------------------- MODULE Spec2Model ----------------------------
(***************************************************************************)
(* A model of redtooth: the packet codec, the local peer discovery, the    *)
(* file transfer channel and the IPC server.                               *)
(*                                                                         *)
(* Bytes are modelled as symbols.  The delimiter characters the code looks *)
(* for are symbols of their own (":" "=" "NL" "CR" "SP"), decimal digits   *)
(* are symbols of their own, "BAD" is a byte that is not valid UTF-8 and   *)
(* "FFFD" is the UTF-8 encoding of U+FFFD.  Any other symbol stands for a  *)
(* run of ordinary characters holding no delimiter (a word such as         *)
(* "file_name", or the text of an IPv4 address such as "10.0.0.5").        *)
(* Option<T> is a sequence of length 0 (None) or 1 (Some).                 *)
(***************************************************************************)
EXTENDS Naturals, Sequences, FiniteSets, TLC

VARIABLES
    \* ---- packet codec (src/src/protocol/packet.rs)
    cpc,          \* "new" | "encoded" | "received" | "roundtrip" | "parsed" |
                  \* "announcement" | "announced" | "announcement roundtrip"
    cHeaders,     \* Packet.headers of the packet being built
    cPayload,     \* Packet.payload of the packet being built (Option)
    cBytes,       \* the bytes on the wire
    cDecoded,     \* the result of Packet::from_bytes(cBytes)
    cAnn,         \* the Announcement being sent (Option)
    cAnnDecoded,  \* the result of Announcement::from_bytes(cBytes)
    \* ---- discovery (src/src/discovery/mod.rs, src/src/discovery/local.rs)
    startResult,  \* result of PeerDiscoverer::start: "none" | "ok" | "err"
    lpc,          \* position of the local_discovery thread
    peers,        \* the PeerMap behind the mutex
    lockHolder,   \* who holds the mutex: "none" | "listener" | a reader
    poisoned,     \* the poison flag of the mutex
    ann,          \* the announcement the listener is about to store
    nrecv,        \* number of recv_from calls that returned
    outcome,      \* what became of the last datagram (history)
    lastDecoded,  \* id -> address of the last announcement decoded for it (history)
    skippedIds,   \* ids whose last decoded announcement was not stored (history)
    qpc,          \* position of each thread calling the query functions
    qres,         \* the last answer each of them got
    apc,          \* position of announce_peer
    announceResult, \* result of announce_peer: "none" | "ok" | "err"
    sockLoop,     \* IP_MULTICAST_LOOP of the announcing socket
    selfLooped,   \* the host delivers the peer's own announcement to its listener
    remotePeers,  \* the registry of another peer of the multicast group
    \* ---- file transfer (src/src/sender.rs, src/src/receiver.rs, src/src/app.rs)
    receiverImpl, \* the accept loop that runs: "app" (app.rs) | "receiver" (receiver.rs)
    spc,          \* position of send_file_to_all
    sAddrs,       \* its addrs argument
    sFile,        \* its path argument and what is at that path
    sData,        \* the buffer it sends
    sIdx,         \* index of the address of the current iteration
    sResult,      \* its result
    attempted,    \* addresses it called connect for (history)
    delivered,    \* addresses it wrote the whole buffer to (history)
    conns,        \* the TCP connections made to the receiver, in connect order
    nAccepted,    \* number of connections the accept loop has taken
    rpc,          \* position of the accept loop
    events,       \* the application's event channel
    files,        \* the save directory: file name -> contents
    \* ---- IPC server (src/src/ipc.rs)
    ipcConns,     \* the connections made to the socket and not yet accepted
    ipcMade,      \* number of connections made so far
    ipcpc,        \* position of the loop over incoming_messages()
    ipcMsg,       \* the message the loop body holds (Option)
    ipcErr        \* the error of the last recv_message, "" when it returned Ok

codecVars == <<cpc, cHeaders, cPayload, cBytes, cDecoded, cAnn, cAnnDecoded>>
discoveryVars == <<startResult, lpc, peers, lockHolder, poisoned, ann, nrecv, outcome,
                   lastDecoded, skippedIds, qpc, qres, apc, announceResult, sockLoop,
                   selfLooped, remotePeers>>
announceVars == <<apc, announceResult, sockLoop, selfLooped, remotePeers>>
transferVars == <<receiverImpl, spc, sAddrs, sFile, sData, sIdx, sResult, attempted,
                  delivered, conns, nAccepted, rpc, events, files>>
ipcVars == <<ipcConns, ipcMade, ipcpc, ipcMsg, ipcErr>>
vars == <<codecVars, discoveryVars, transferVars, ipcVars>>

-----------------------------------------------------------------------------
(* Generic helpers *)

None == <<>>
Some(x) == <<x>>
IsSome(o) == Len(o) = 1
Unwrap(o) == o[1]

EmptyMap == [x \in {} |-> <<>>]

\* HashMap::insert
MapInsert(m, k, v) == [x \in (DOMAIN m) \cup {k} |-> IF x = k THEN v ELSE m[x]]

Range(s) == {s[i] : i \in DOMAIN s}

\* every sequence over S of length at most n
BoundedSeq(S, n) == UNION {[1..k -> S] : k \in 0..n}

\* every ordering of the elements of a finite set
Orderings(S) == {o \in [1..Cardinality(S) -> S] : Range(o) = S}

\* slice.windows(len(pat)).position(|w| w == pat) from index i on; 0 is None
RECURSIVE WindowsPositionFrom(_, _, _)
WindowsPositionFrom(bytes, pat, i) ==
    IF i + Len(pat) - 1 > Len(bytes) THEN 0
    ELSE IF SubSeq(bytes, i, i + Len(pat) - 1) = pat THEN i
    ELSE WindowsPositionFrom(bytes, pat, i + 1)

\* a search that skips the first window
WindowsPosition_SkipFirst(bytes, pat) == WindowsPositionFrom(bytes, pat, 2)

WindowsPosition(bytes, pat) == WindowsPositionFrom(bytes, pat, 1)

\* str::from_utf8(bytes).is_ok()
IsUtf8(bytes) == \A i \in DOMAIN bytes : bytes[i] # "BAD"

\* str::lines: split at "\n", a "\r" before the "\n" belongs to the line ending;
\* the last line needs no line ending
RECURSIVE Lines(_)
Lines(s) ==
    IF s = <<>> THEN <<>>
    ELSE LET nl == WindowsPosition(s, <<"NL">>)
         IN IF nl = 0 THEN <<s>>
            ELSE LET line == SubSeq(s, 1, nl - 1)
                     stripped == IF line # <<>> /\ line[Len(line)] = "CR"
                                 THEN SubSeq(line, 1, Len(line) - 1)
                                 ELSE line
                 IN <<stripped>> \o Lines(SubSeq(s, nl + 1, Len(s)))

\* a split at the second ch when there is one
SplitOnce_AtSecond(s, ch) ==
    LET p == WindowsPosition(s, <<ch>>)
        q == IF p = 0 THEN 0 ELSE WindowsPositionFrom(s, <<ch>>, p + 1)
        at == IF q = 0 THEN p ELSE q
    IN IF at = 0 THEN None
       ELSE Some(<<SubSeq(s, 1, at - 1), SubSeq(s, at + 1, Len(s))>>)

\* str::split_once(ch): Some((before, after)) at the first ch
SplitOnce(s, ch) ==
    LET p == WindowsPosition(s, <<ch>>)
    IN IF p = 0 THEN None
       ELSE Some(<<SubSeq(s, 1, p - 1), SubSeq(s, p + 1, Len(s))>>)

-----------------------------------------------------------------------------
(* Packet codec: src/src/protocol/packet.rs *)

SECTIONS_SEPARATOR == <<":", ":">>
HEADER_NAME_VALUE_SEPARATOR == "="

\* the filter_map / map / collect of from_bytes: a later line replaces an
\* earlier one of the same name
RECURSIVE CollectHeaders(_, _)
CollectHeaders(lines, acc) ==
    IF lines = <<>> THEN acc
    ELSE LET kv == SplitOnce(Head(lines), HEADER_NAME_VALUE_SEPARATOR)
         IN IF IsSome(kv)
            THEN CollectHeaders(Tail(lines), MapInsert(acc, Unwrap(kv)[1], Unwrap(kv)[2]))
            ELSE CollectHeaders(Tail(lines), acc)

PacketErr(e) == [ok |-> FALSE, err |-> e, headers |-> EmptyMap, payload |-> None]

\* from_bytes with the payload cut at the next separator
PacketFromBytes_CutPayload(bytes) ==
    LET separator_len == Len(SECTIONS_SEPARATOR)
        separator_index == WindowsPosition(bytes, SECTIONS_SEPARATOR)
    IN IF separator_index = 0 THEN PacketErr("MissingSectionsSeparator")
       ELSE LET head == SubSeq(bytes, 1, separator_index - 1)
                rest == SubSeq(bytes, separator_index + separator_len, Len(bytes))
                next == WindowsPosition(rest, SECTIONS_SEPARATOR)
            IN IF ~IsUtf8(head) THEN PacketErr("InvalidUtf8")
               ELSE [ok |-> TRUE, err |-> "",
                     headers |-> CollectHeaders(Lines(head), EmptyMap),
                     payload |-> Some(IF next = 0 THEN rest ELSE SubSeq(rest, 1, next - 1))]

\* from_bytes that decodes the whole input as text
PacketFromBytes_WholeText(bytes) ==
    LET separator_len == Len(SECTIONS_SEPARATOR)
        separator_index == WindowsPosition(bytes, SECTIONS_SEPARATOR)
    IN IF separator_index = 0 THEN PacketErr("MissingSectionsSeparator")
       ELSE LET head == SubSeq(bytes, 1, separator_index - 1)
            IN IF ~IsUtf8(bytes) THEN PacketErr("InvalidUtf8")
               ELSE [ok |-> TRUE, err |-> "",
                     headers |-> CollectHeaders(Lines(head), EmptyMap),
                     payload |-> Some(SubSeq(bytes, separator_index + separator_len,
                                             Len(bytes)))]

\* Packet::from_bytes
PacketFromBytes(bytes) ==
    LET separator_len == Len(SECTIONS_SEPARATOR)
        separator_index == WindowsPosition(bytes, SECTIONS_SEPARATOR)
    IN IF separator_index = 0 THEN PacketErr("MissingSectionsSeparator")
       ELSE LET head == SubSeq(bytes, 1, separator_index - 1)
            IN IF ~IsUtf8(head) THEN PacketErr("InvalidUtf8")
               ELSE [ok |-> TRUE, err |-> "",
                     headers |-> CollectHeaders(Lines(head), EmptyMap),
                     payload |-> Some(SubSeq(bytes, separator_index + separator_len,
                                             Len(bytes)))]

\* the writeln! loop of as_bytes over the headers in the order `order`
RECURSIVE HeaderLines(_, _)
HeaderLines(headers, order) ==
    IF order = <<>> THEN <<>>
    ELSE Head(order) \o <<HEADER_NAME_VALUE_SEPARATOR>> \o headers[Head(order)] \o <<"NL">>
         \o HeaderLines(headers, Tail(order))

\* Packet::get_payload().unwrap_or_default()
PayloadBytes(payload) == IF IsSome(payload) THEN Unwrap(payload) ELSE <<>>

\* as_bytes without the separator between the sections
PacketAsBytes_NoSeparator(headers, payload, order) ==
    HeaderLines(headers, order) \o PayloadBytes(payload)

\* Packet::as_bytes; `order` is the iteration order of the HashMap
PacketAsBytes(headers, payload, order) ==
    HeaderLines(headers, order) \o SECTIONS_SEPARATOR \o PayloadBytes(payload)

\* Packet::get_header
GetHeader(headers, name) == IF name \in DOMAIN headers THEN Some(headers[name]) ELSE None


-----------------------------------------------------------------------------
(* Text of numbers and addresses *)

DigitSyms == <<"0", "1", "2", "3", "4", "5", "6", "7", "8", "9">>
IsDigit(c) == \E d \in 1..10 : DigitSyms[d] = c
DigitValue(c) == (CHOOSE d \in 1..10 : DigitSyms[d] = c) - 1

\* u64 / u16 Display
RECURSIVE ToDigits(_)
ToDigits(n) ==
    IF n < 10 THEN <<DigitSyms[n + 1]>>
    ELSE ToDigits(n \div 10) \o <<DigitSyms[(n % 10) + 1]>>

RECURSIVE DigitsValue(_, _)
DigitsValue(text, acc) ==
    IF text = <<>> THEN acc
    ELSE DigitsValue(Tail(text), acc * 10 + DigitValue(Head(text)))

\* str::parse::<u64>(): a non-empty run of digits (the texts of the model are
\* too short to overflow a u64)
ParseU64(text) ==
    IF text # <<>> /\ \A i \in DOMAIN text : IsDigit(text[i])
    THEN Some(DigitsValue(text, 0))
    ELSE None

U16_MAX == 65535

\* the texts Ipv4Addr::from_str accepts, each one symbol
Ipv4Texts == {"0.0.0.0", "10.0.0.5", "192.168.1.10", "192.168.1.20", "192.168.1.30"}
UNSPECIFIED == "0.0.0.0"

\* Display of the IPv6 addresses of the model: the longest run of zero groups
\* is written "::"
Ipv6Text ==
    ("::1" :> <<":", ":", "1">>)
    @@ ("fe80::1" :> <<"fe80", ":", ":", "1">>)
    @@ ("2001:db8:a:b:c:d:e:f" :>
            <<"2001", ":", "db8", ":", "a", ":", "b", ":", "c", ":", "d", ":", "e", ":", "f">>)
Ipv6Addrs == DOMAIN Ipv6Text

\* the decimal port of a socket address text (the texts of the model are too
\* short to overflow the integers of the model)
ParsePort(text) ==
    IF /\ text # <<>>
       /\ \A i \in DOMAIN text : IsDigit(text[i])
       /\ DigitsValue(text, 0) <= U16_MAX
    THEN Some(DigitsValue(text, 0))
    ELSE None

\* str::parse::<SocketAddr>(): <ipv4>:<port> or [<ipv6>]:<port>
ParseAddr(text) ==
    IF Len(text) >= 3 /\ text[1] \in Ipv4Texts /\ text[2] = ":"
    THEN LET port == ParsePort(SubSeq(text, 3, Len(text)))
         IN IF IsSome(port) THEN Some([ip |-> text[1], port |-> Unwrap(port)]) ELSE None
    ELSE IF Len(text) >= 1 /\ text[1] = "["
    THEN LET close == WindowsPosition(text, <<"]">>)
         IN IF close = 0 \/ close + 1 > Len(text) \/ text[close + 1] # ":" THEN None
            ELSE LET inner == SubSeq(text, 2, close - 1)
                     port == ParsePort(SubSeq(text, close + 2, Len(text)))
                 IN IF IsSome(port) /\ \E ip \in Ipv6Addrs : Ipv6Text[ip] = inner
                    THEN Some([ip |-> CHOOSE ip \in Ipv6Addrs : Ipv6Text[ip] = inner,
                               port |-> Unwrap(port)])
                    ELSE None
    ELSE None

\* SocketAddr Display: <ipv4>:<port> or [<ipv6>]:<port>
AddrToString(addr) ==
    IF addr.ip \in Ipv6Addrs
    THEN <<"[">> \o Ipv6Text[addr.ip] \o <<"]", ":">> \o ToDigits(addr.port)
    ELSE <<addr.ip, ":">> \o ToDigits(addr.port)

-----------------------------------------------------------------------------
(* Announcement: src/src/discovery/announcement.rs *)

AnnouncementErr(e) == [ok |-> FALSE, err |-> e, peer_id |-> 0,
                       peer_addr |-> [ip |-> UNSPECIFIED, port |-> 0]]

\* from_bytes that gives an absent or unparsable address the default address
AnnouncementFromBytes_DefaultAddr(bytes) ==
    LET packet == PacketFromBytes(bytes)
    IN IF ~packet.ok THEN AnnouncementErr("InvalidPacket")
       ELSE LET idText == GetHeader(packet.headers, <<"id">>)
                peer_id == IF IsSome(idText) THEN ParseU64(Unwrap(idText)) ELSE None
                addrText == GetHeader(packet.headers, <<"addr">>)
                peer_addr == IF IsSome(addrText) THEN ParseAddr(Unwrap(addrText)) ELSE None
            IN IF ~IsSome(peer_id) THEN AnnouncementErr("MissingPeerID")
               ELSE [ok |-> TRUE, err |-> "", peer_id |-> Unwrap(peer_id),
                     peer_addr |-> IF IsSome(peer_addr) THEN Unwrap(peer_addr)
                                   ELSE [ip |-> UNSPECIFIED, port |-> 0]]

\* Announcement::from_bytes
AnnouncementFromBytes(bytes) ==
    LET packet == PacketFromBytes(bytes)
    IN IF ~packet.ok THEN AnnouncementErr("InvalidPacket")
       ELSE LET idText == GetHeader(packet.headers, <<"id">>)
                peer_id == IF IsSome(idText) THEN ParseU64(Unwrap(idText)) ELSE None
                addrText == GetHeader(packet.headers, <<"addr">>)
                peer_addr == IF IsSome(addrText) THEN ParseAddr(Unwrap(addrText)) ELSE None
            IN IF ~IsSome(peer_id) THEN AnnouncementErr("MissingPeerID")
               ELSE IF ~IsSome(peer_addr) THEN AnnouncementErr("MissingPeerAddr")
               ELSE [ok |-> TRUE, err |-> "", peer_id |-> Unwrap(peer_id),
                     peer_addr |-> Unwrap(peer_addr)]

\* Announcement::as_bytes; `order` is the iteration order of the packet's HashMap
AnnouncementAsBytes(peer_id, peer_addr, order) ==
    PacketAsBytes(MapInsert(MapInsert(EmptyMap, <<"id">>, ToDigits(peer_id)),
                            <<"addr">>, AddrToString(peer_addr)),
                  None, order)

-----------------------------------------------------------------------------
(* The packet API as a state machine: a packet is built with set_header and *)
(* set_payload, turned into bytes and parsed back; or arbitrary bytes come  *)
(* in from the network and are parsed.                                      *)

MaxHeaders == 2
MaxWireLen == 4
MaxHeadLen == 5

HeaderNames == {<<"id">>, <<"addr">>, <<"k", "=", "k">>, <<"k", "NL">>}
HeaderValues == {<<>>, <<"v">>, <<"v", "=", "w">>, <<"v", "NL", "w">>, <<"v", "CR">>,
                 <<"v", ":">>, <<":", ":">>}
Payloads == {<<>>, <<"x">>, <<":", "x">>, <<":", ":">>, <<"BAD">>, <<"x", ":", ":", "y">>}
WireBytes == {"k", "=", ":", "NL", "CR", "BAD"}
HeadBytes == {"k", "v", "=", "NL", "CR"}

\* the announcements Announcement::new is called with
AnnouncedIds == {0, 42}
AnnouncedIps == {"10.0.0.5", UNSPECIFIED} \cup Ipv6Addrs
AnnouncedPorts == {0, 25802, U16_MAX}

CodecIdle ==
    /\ cpc = "new"
    /\ cHeaders = EmptyMap
    /\ cPayload = None
    /\ cBytes = <<>>
    /\ cDecoded = PacketErr("")
    /\ cAnn = None
    /\ cAnnDecoded = AnnouncementErr("")

\* Packet::set_header
SetHeader(name, value) ==
    /\ UNCHANGED <<discoveryVars, transferVars, ipcVars>>
    /\ cpc = "new"
    /\ name \in DOMAIN cHeaders \/ Cardinality(DOMAIN cHeaders) < MaxHeaders
    /\ cHeaders' = MapInsert(cHeaders, name, value)
    /\ UNCHANGED <<cpc, cPayload, cBytes, cDecoded, cAnn, cAnnDecoded>>

\* Packet::set_payload
SetPayload(p) ==
    /\ UNCHANGED <<discoveryVars, transferVars, ipcVars>>
    /\ cpc = "new"
    /\ cPayload' = Some(p)
    /\ UNCHANGED <<cpc, cHeaders, cBytes, cDecoded, cAnn, cAnnDecoded>>

\* Packet::as_bytes, for each iteration order of the HashMap
AsBytes ==
    /\ UNCHANGED <<discoveryVars, transferVars, ipcVars>>
    /\ cpc = "new"
    /\ \E order \in Orderings(DOMAIN cHeaders) :
           cBytes' = PacketAsBytes(cHeaders, cPayload, order)
    /\ cpc' = "encoded"
    /\ UNCHANGED <<cHeaders, cPayload, cDecoded, cAnn, cAnnDecoded>>

\* bytes arriving from the network
RecvBytes ==
    /\ UNCHANGED <<discoveryVars, transferVars, ipcVars>>
    /\ CodecIdle
    /\ \E bytes \in BoundedSeq(WireBytes, MaxWireLen) : cBytes' = bytes
    /\ cpc' = "received"
    /\ UNCHANGED <<cHeaders, cPayload, cDecoded, cAnn, cAnnDecoded>>

\* bytes arriving from the network that hold a header section of some lines,
\* the separator and no payload
RecvHeaderBytes ==
    /\ UNCHANGED <<discoveryVars, transferVars, ipcVars>>
    /\ CodecIdle
    /\ \E head \in BoundedSeq(HeadBytes, MaxHeadLen) : cBytes' = head \o SECTIONS_SEPARATOR
    /\ cpc' = "received"
    /\ UNCHANGED <<cHeaders, cPayload, cDecoded, cAnn, cAnnDecoded>>

\* Packet::from_bytes on the bytes of the wire
FromBytes ==
    /\ UNCHANGED <<discoveryVars, transferVars, ipcVars>>
    /\ cpc \in {"encoded", "received"}
    /\ cDecoded' = PacketFromBytes(cBytes)
    /\ cpc' = IF cpc = "encoded" THEN "roundtrip" ELSE "parsed"
    /\ UNCHANGED <<cHeaders, cPayload, cBytes, cAnn, cAnnDecoded>>

\* the datagrams a socket of the group can get: an id line or none, an addr
\* line or none, in both orders, then the separator, an invalid byte or nothing
IdTexts == {<<"4", "2">>, <<"0">>, <<>>, <<"x">>, <<"4", "SP">>}
AddrTexts == {<<"10.0.0.5", ":", "8", "0">>, <<"10.0.0.5">>, <<"10.0.0.5", ":">>,
              <<"10.0.0.5", ":", "6", "5", "5", "3", "6">>, <<>>, <<"[", "fe80">>}
IdLines == {<<>>} \cup {<<"id", "=">> \o t \o <<"NL">> : t \in IdTexts}
AddrLines == {<<>>} \cup {<<"addr", "=">> \o t \o <<"NL">> : t \in AddrTexts}
WireEnds == {SECTIONS_SEPARATOR, <<>>, <<"BAD">> \o SECTIONS_SEPARATOR,
             SECTIONS_SEPARATOR \o <<"BAD">>}
AnnouncementWire ==
    {a \o b \o e : a \in IdLines, b \in AddrLines, e \in WireEnds}
    \cup {b \o a \o e : a \in IdLines, b \in AddrLines, e \in WireEnds}

\* a datagram arriving from the network
AnnouncementRecv ==
    /\ UNCHANGED <<discoveryVars, transferVars, ipcVars>>
    /\ CodecIdle
    /\ cBytes' \in AnnouncementWire
    /\ cpc' = "announcement received"
    /\ UNCHANGED <<cHeaders, cPayload, cDecoded, cAnn, cAnnDecoded>>

\* Announcement::new
AnnouncementNew(peer_id, peer_addr) ==
    /\ UNCHANGED <<discoveryVars, transferVars, ipcVars>>
    /\ CodecIdle
    /\ cAnn' = Some([peer_id |-> peer_id, peer_addr |-> peer_addr])
    /\ cpc' = "announcement"
    /\ UNCHANGED <<cHeaders, cPayload, cBytes, cDecoded, cAnnDecoded>>

\* Announcement::as_bytes, for each iteration order of the packet's HashMap
AnnouncementEncode ==
    /\ UNCHANGED <<discoveryVars, transferVars, ipcVars>>
    /\ cpc = "announcement"
    /\ \E order \in Orderings({<<"id">>, <<"addr">>}) :
           cBytes' = AnnouncementAsBytes(Unwrap(cAnn).peer_id, Unwrap(cAnn).peer_addr, order)
    /\ cpc' = "announced"
    /\ UNCHANGED <<cHeaders, cPayload, cDecoded, cAnn, cAnnDecoded>>

\* Announcement::from_bytes on the bytes of the wire
AnnouncementDecode ==
    /\ UNCHANGED <<discoveryVars, transferVars, ipcVars>>
    /\ cpc \in {"announced", "announcement received"}
    /\ cAnnDecoded' = AnnouncementFromBytes(cBytes)
    /\ cpc' = IF cpc = "announced" THEN "announcement roundtrip" ELSE "announcement parsed"
    /\ UNCHANGED <<cHeaders, cPayload, cBytes, cDecoded, cAnn>>

InitCodec == CodecIdle

NextCodec ==
    \/ \E name \in HeaderNames, value \in HeaderValues : SetHeader(name, value)
    \/ \E p \in Payloads : SetPayload(p)
    \/ AsBytes
    \/ RecvBytes
    \/ RecvHeaderBytes
    \/ FromBytes
    \/ \E id \in AnnouncedIds, ip \in AnnouncedIps, port \in AnnouncedPorts :
           AnnouncementNew(id, [ip |-> ip, port |-> port])
    \/ AnnouncementEncode
    \/ AnnouncementRecv
    \/ AnnouncementDecode

-----------------------------------------------------------------------------
(* Claims about the packet codec *)

HasSeparator(text) == WindowsPosition(text, SECTIONS_SEPARATOR) # 0

NoSeparatorInHeaders(headers) ==
    \A name \in DOMAIN headers : ~HasSeparator(name) /\ ~HasSeparator(headers[name])

\* C1: for every header map whose names and values hold no section separator
\* and every payload, parsing the bytes of as_bytes succeeds and gives back
\* exactly the header map and exactly the payload.
C1_RoundTrip ==
    (cpc = "roundtrip" /\ NoSeparatorInHeaders(cHeaders))
        => /\ cDecoded.ok
           /\ cDecoded.headers = cHeaders
           /\ PayloadBytes(cDecoded.payload) = PayloadBytes(cPayload)

\* the positions of bytes at which the two separator bytes stand
SeparatorPositions(bytes) ==
    {i \in 1..(Len(bytes) - 1) : bytes[i] = ":" /\ bytes[i + 1] = ":"}

FirstSeparator(bytes) ==
    CHOOSE i \in SeparatorPositions(bytes) : \A j \in SeparatorPositions(bytes) : i <= j

Parsed == cpc \in {"parsed", "roundtrip"}
Encoded == cpc \in {"encoded", "roundtrip"}

\* C18: from_bytes fails with MissingSectionsSeparator exactly for the byte
\* sequences that hold the two separator bytes nowhere, the empty one and the
\* ones of one byte included.
C18_MissingSeparator ==
    Parsed => /\ (cDecoded.err = "MissingSectionsSeparator") <=> (SeparatorPositions(cBytes) = {})
              /\ cDecoded.err = "MissingSectionsSeparator" => ~cDecoded.ok

\* a sequence of one separator byte was refused, being shorter than the separator
C18_Witness ==
    cpc = "parsed" /\ cBytes = <<":">> /\ cDecoded.err = "MissingSectionsSeparator"

\* C19 (as claimed): the bytes of as_bytes hold the separator exactly once.
C19_ExactlyOneSeparator == Encoded => Cardinality(SeparatorPositions(cBytes)) = 1

\* C19 (amended): the bytes of as_bytes hold the separator at least once, and
\* exactly once when no header name or value holds it and the payload neither
\* holds it nor starts with ':'.
C19_AtLeastOneSeparator ==
    Encoded =>
        /\ Cardinality(SeparatorPositions(cBytes)) >= 1
        /\ (/\ \A name \in DOMAIN cHeaders :
                    /\ SeparatorPositions(name) = {}
                    /\ SeparatorPositions(cHeaders[name]) = {}
            /\ SeparatorPositions(PayloadBytes(cPayload)) = {}
            /\ PayloadBytes(cPayload) = <<>> \/ PayloadBytes(cPayload)[1] # ":")
               => Cardinality(SeparatorPositions(cBytes)) = 1

\* a packet whose headers hold no separator was encoded to bytes that hold more
\* than one
C19_Witness ==
    /\ cpc = "encoded" /\ cHeaders # EmptyMap /\ NoSeparatorInHeaders(cHeaders)
    /\ Cardinality(SeparatorPositions(cBytes)) > 1

\* C20: when from_bytes succeeds, the payload is the bytes after the first
\* separator, later separators included; when nothing follows the first
\* separator and the header section is valid text, from_bytes succeeds with an
\* empty payload.
C20_PayloadAfterFirstSeparator ==
    (Parsed /\ SeparatorPositions(cBytes) # {}) =>
        LET first == FirstSeparator(cBytes)
        IN /\ cDecoded.ok =>
                 cDecoded.payload = <<SubSeq(cBytes, first + 2, Len(cBytes))>>
           /\ (first + 1 = Len(cBytes) /\ \A i \in 1..(first - 1) : cBytes[i] # "BAD")
                 => cDecoded.ok /\ cDecoded.payload = <<<<>>>>

\* bytes were parsed to a payload that holds the separator bytes itself
C20_Witness ==
    /\ cpc = "parsed" /\ cDecoded.ok
    /\ SeparatorPositions(PayloadBytes(cDecoded.payload)) # {}

\* the lines of the header section of bytes that hold the separator
HeaderSectionLines(bytes) == Lines(SubSeq(bytes, 1, FirstSeparator(bytes) - 1))

\* the positions of '=' in a line, the text before the first one and the whole
\* text after it
EqualsPositions(line) == {i \in 1..Len(line) : line[i] = "="}
FirstEquals(line) == CHOOSE i \in EqualsPositions(line) : \A j \in EqualsPositions(line) : i <= j
NameOf(line) == SubSeq(line, 1, FirstEquals(line) - 1)
ValueOf(line) == SubSeq(line, FirstEquals(line) + 1, Len(line))

\* C21: when from_bytes succeeds, the names of its headers are the texts
\* before the first '=' of the lines that hold a '=', no line without '='
\* gives a header, and the value of a name is the whole text after the first
\* '=' of the line of that name (of the last such line, when several lines
\* have the name).
C21_HeaderLines ==
    (Parsed /\ cDecoded.ok) =>
        LET lines == HeaderSectionLines(cBytes)
            with == {i \in 1..Len(lines) : EqualsPositions(lines[i]) # {}}
        IN /\ DOMAIN cDecoded.headers = {NameOf(lines[i]) : i \in with}
           /\ \A i \in with :
                  (\A j \in with : j > i => NameOf(lines[j]) # NameOf(lines[i]))
                      => cDecoded.headers[NameOf(lines[i])] = ValueOf(lines[i])

\* bytes were parsed whose header section has a line with two '=', which gave
\* a header, and a line without '=', which gave none
C21_Witness ==
    /\ cpc = "parsed" /\ cDecoded.ok
    /\ \E i \in 1..Len(HeaderSectionLines(cBytes)) :
           Cardinality(EqualsPositions(HeaderSectionLines(cBytes)[i])) = 2
    /\ \E i \in 1..Len(HeaderSectionLines(cBytes)) :
           /\ HeaderSectionLines(cBytes)[i] # <<>>
           /\ EqualsPositions(HeaderSectionLines(cBytes)[i]) = {}
    /\ Cardinality(DOMAIN cDecoded.headers) = 1

\* the bytes before the first separator
BeforeFirstSeparator(bytes) == SubSeq(bytes, 1, FirstSeparator(bytes) - 1)

\* C22: for bytes that hold the separator, from_bytes fails exactly when an
\* invalid byte stands before the first separator, and then with InvalidUtf8;
\* an invalid byte in the payload does not make it fail.
C22_InvalidTextOnlyInHeaders ==
    (Parsed /\ SeparatorPositions(cBytes) # {}) =>
        /\ ~cDecoded.ok <=> "BAD" \in Range(BeforeFirstSeparator(cBytes))
        /\ ~cDecoded.ok => cDecoded.err = "InvalidUtf8"

\* bytes with the separator and an invalid byte before it were refused
C22_Witness ==
    /\ cpc = "parsed" /\ SeparatorPositions(cBytes) # {}
    /\ "BAD" \in Range(BeforeFirstSeparator(cBytes))
    /\ ~cDecoded.ok /\ cDecoded.err = "InvalidUtf8"

\* the text of a header in the header lines of a datagram, when a line of that
\* name is there
HasLine(bytes, name) ==
    \E i \in 1..Len(HeaderSectionLines(bytes)) :
        /\ EqualsPositions(HeaderSectionLines(bytes)[i]) # {}
        /\ NameOf(HeaderSectionLines(bytes)[i]) = <<name>>
LineText(bytes, name) ==
    LET lines == HeaderSectionLines(bytes)
        last == CHOOSE i \in 1..Len(lines) :
                    /\ EqualsPositions(lines[i]) # {} /\ NameOf(lines[i]) = <<name>>
                    /\ \A j \in (i + 1)..Len(lines) :
                           EqualsPositions(lines[j]) = {} \/ NameOf(lines[j]) # <<name>>
    IN ValueOf(lines[last])

\* the datagram decodes as a packet, and its id and addr headers are there and parse
DecodesAsPacket(bytes) ==
    SeparatorPositions(bytes) # {} /\ "BAD" \notin Range(BeforeFirstSeparator(bytes))
IdParses(bytes) == HasLine(bytes, "id") /\ IsSome(ParseU64(LineText(bytes, "id")))
AddrParses(bytes) == HasLine(bytes, "addr") /\ IsSome(ParseAddr(LineText(bytes, "addr")))

\* C23: Announcement::from_bytes returns an Announcement exactly when the
\* bytes decode as a packet whose id header is there and parses as a peer id
\* and whose addr header is there and parses as a socket address, and then
\* with these two values; in every other case it returns an error.
C23_AnnouncementOrError ==
    cpc = "announcement parsed" =>
        /\ cAnnDecoded.ok <=>
               DecodesAsPacket(cBytes) /\ IdParses(cBytes) /\ AddrParses(cBytes)
        /\ cAnnDecoded.ok =>
               /\ cAnnDecoded.peer_id = Unwrap(ParseU64(LineText(cBytes, "id")))
               /\ cAnnDecoded.peer_addr = Unwrap(ParseAddr(LineText(cBytes, "addr")))
        /\ ~cAnnDecoded.ok =>
               cAnnDecoded.err \in {"InvalidPacket", "MissingPeerID", "MissingPeerAddr"}

\* a datagram with a valid id and an addr header that does not parse was refused
C23_Witness ==
    /\ cpc = "announcement parsed"
    /\ DecodesAsPacket(cBytes) /\ IdParses(cBytes)
    /\ HasLine(cBytes, "addr") /\ ~AddrParses(cBytes)
    /\ ~cAnnDecoded.ok /\ cAnnDecoded.err = "MissingPeerAddr"

\* C11: for every peer id and every peer address, IPv4 or IPv6 with any port,
\* Announcement::from_bytes of the bytes of Announcement::as_bytes succeeds and
\* yields the same id and the same address.
C11_AnnouncementRoundTrip ==
    cpc = "announcement roundtrip"
        => /\ cAnnDecoded.ok
           /\ cAnnDecoded.peer_id = Unwrap(cAnn).peer_id
           /\ cAnnDecoded.peer_addr = Unwrap(cAnn).peer_addr

-----------------------------------------------------------------------------
(* Discovery: src/src/discovery/mod.rs and src/src/discovery/local.rs *)

MaxDatagrams == 3

DEFAULT_PEER_PORT == 25802

PeerAddrOf(ip) == [ip |-> ip, port |-> DEFAULT_PEER_PORT]

Queriers == {"q1", "q2"}
PeerIds == {1, 2}

NoAnn == [peer_id |-> 0, peer_addr |-> PeerAddrOf(UNSPECIFIED)]

\* the announcements other peers send
SentAnnouncements ==
    {[peer_id |-> 1, peer_addr |-> PeerAddrOf("10.0.0.5")],
     [peer_id |-> 1, peer_addr |-> PeerAddrOf(UNSPECIFIED)],
     [peer_id |-> 2, peer_addr |-> [ip |-> UNSPECIFIED, port |-> 8080]]}

SourceIps == {"192.168.1.20", "192.168.1.30"}

HeaderOrders == Orderings({<<"id">>, <<"addr">>})

\* datagrams that are no announcement, each with the reason
MalformedBytes ==
    {[kind |-> "missing separator",
      bytes |-> <<"id", "=", "1", "NL", "addr", "=", "10.0.0.5", ":", "2", "5", "NL">>],
     [kind |-> "invalid text",
      bytes |-> <<"id", "=", "1", "NL", "addr", "=", "BAD", "NL", ":", ":">>],
     [kind |-> "missing id",
      bytes |-> <<"addr", "=", "10.0.0.5", ":", "2", "5", "NL", ":", ":">>],
     [kind |-> "unparsable id",
      bytes |-> <<"id", "=", "x", "NL", "addr", "=", "10.0.0.5", ":", "2", "5", "NL", ":", ":">>],
     [kind |-> "missing addr",
      bytes |-> <<"id", "=", "1", "NL", ":", ":">>],
     [kind |-> "unparsable addr",
      bytes |-> <<"id", "=", "1", "NL", "addr", "=", "10.0.0.5", "NL", ":", ":">>]}

\* what recv_from can return: the bytes, the source address and (history) the
\* kind of datagram
Datagrams ==
    {[kind |-> "valid", bytes |-> AnnouncementAsBytes(a.peer_id, a.peer_addr, o), src |-> ip] :
        a \in SentAnnouncements, o \in HeaderOrders, ip \in SourceIps}
    \cup {[kind |-> m.kind, bytes |-> m.bytes, src |-> ip] : m \in MalformedBytes, ip \in SourceIps}

\* this peer: its id, the address of its host, and its announcement as the
\* listeners of the group get it
MyId == 9
MyIp == "192.168.1.10"
SelfDatagrams ==
    {[kind |-> "self", bytes |-> AnnouncementAsBytes(MyId, PeerAddrOf(MyIp), o), src |-> MyIp] :
        o \in HeaderOrders}

NoAnswer == [kind |-> "", id |-> 0, answer |-> None]
QueryIdle == [pc |-> "idle", kind |-> "", id |-> 0]

\* Announcement::from_bytes of every datagram (evaluated once)
DatagramDecoding == [d \in Datagrams \cup SelfDatagrams |-> AnnouncementFromBytes(d.bytes)]

InitDiscovery ==
    /\ startResult = "none"
    /\ lpc = "unspawned"
    /\ peers = EmptyMap
    /\ lockHolder = "none"
    /\ poisoned = FALSE
    /\ ann = NoAnn
    /\ nrecv = 0
    /\ outcome = "none"
    /\ lastDecoded = EmptyMap
    /\ skippedIds = {}
    /\ qpc = [q \in Queriers |-> QueryIdle]
    /\ qres = NoAnswer
    /\ apc = "idle"
    /\ announceResult = "none"
    /\ sockLoop = TRUE
    /\ selfLooped = FALSE
    /\ remotePeers = EmptyMap

\* PeerDiscoverer::start with local::spawn: the thread is created, or it is not
DiscovererStart ==
    /\ UNCHANGED <<ipcVars, codecVars, transferVars, announceVars, poisoned>>
    /\ startResult = "none"
    /\ lpc = "unspawned"
    /\ \/ startResult' = "ok" /\ lpc' = "bootstrapping"
       \/ startResult' = "err" /\ lpc' = lpc
    /\ UNCHANGED <<peers, lockHolder, ann, nrecv, outcome, lastDecoded, skippedIds, qpc, qres>>

\* discover_peers up to the loop: bind, join_multicast_v4 and local_addr succeed,
\* or one of them fails and the thread returns the error
ListenerBind ==
    /\ UNCHANGED <<ipcVars, codecVars, transferVars, announceVars, poisoned>>
    /\ lpc = "bootstrapping"
    /\ \/ lpc' = "recv"
       \/ lpc' = "exited"
    /\ UNCHANGED <<startResult, peers, lockHolder, ann, nrecv, outcome, lastDecoded,
                   skippedIds, qpc, qres>>

\* without the substitution of the source IP: the announced address as it is
StoredAddr_AsAnnounced(peer_addr, src) == peer_addr

\* the source IP taken whatever the announcement says
StoredAddr_AlwaysSource(peer_addr, src) == [peer_addr EXCEPT !.ip = src]

\* the address stored for an announcement received from src
StoredAddr(peer_addr, src) ==
    IF peer_addr.ip = UNSPECIFIED THEN [peer_addr EXCEPT !.ip = src] ELSE peer_addr

\* `?` in the place of `continue`: a datagram that does not decode ends the thread
ReceiveDatagram_Bail(d) ==
    LET a == DatagramDecoding[d]
    IN IF ~a.ok
       THEN /\ lpc' = "exited"
            /\ outcome' = "malformed"
            /\ UNCHANGED <<ann, lastDecoded, skippedIds>>
       ELSE LET addr == StoredAddr(a.peer_addr, d.src)
            IN /\ lpc' = "trylock"
               /\ ann' = [peer_id |-> a.peer_id, peer_addr |-> addr]
               /\ lastDecoded' = MapInsert(lastDecoded, a.peer_id, addr)
               /\ skippedIds' = skippedIds \cup {a.peer_id}
               /\ outcome' = "decoded"

\* one iteration of the loop up to the inner block, for the datagram d
ReceiveDatagram(d) ==
    LET a == DatagramDecoding[d]
    IN IF ~a.ok
       THEN /\ lpc' = "recv"
            /\ outcome' = "malformed"
            /\ UNCHANGED <<ann, lastDecoded, skippedIds>>
       ELSE LET addr == StoredAddr(a.peer_addr, d.src)
            IN /\ lpc' = "trylock"
               /\ ann' = [peer_id |-> a.peer_id, peer_addr |-> addr]
               /\ lastDecoded' = MapInsert(lastDecoded, a.peer_id, addr)
               /\ skippedIds' = skippedIds \cup {a.peer_id}
               /\ outcome' = "decoded"

\* recv_from returns: an error, or a datagram of another peer, or the peer's
\* own announcement when the host loops it back; `datagrams` is what the
\* other peers of the group send
ListenerRecvFrom(datagrams) ==
    /\ UNCHANGED <<ipcVars, codecVars, transferVars, announceVars, poisoned>>
    /\ lpc = "recv"
    /\ nrecv < MaxDatagrams
    /\ nrecv' = nrecv + 1
    /\ \/ /\ lpc' = "recv"
          /\ outcome' = "recv error"
          /\ UNCHANGED <<ann, lastDecoded, skippedIds>>
       \/ \E d \in datagrams : ReceiveDatagram(d)
       \/ selfLooped /\ \E d \in SelfDatagrams : ReceiveDatagram(d)
    /\ UNCHANGED <<startResult, peers, lockHolder, qpc, qres>>

ListenerRecv == ListenerRecvFrom(Datagrams)

\* the first and the second field of str::split(';'): the second is None when
\* the text holds no ';'
FirstField(text) ==
    IF IsSome(SplitOnce(text, ";")) THEN Unwrap(SplitOnce(text, ";"))[1] ELSE text
SecondField(text) ==
    IF IsSome(SplitOnce(text, ";"))
    THEN Some(FirstField(Unwrap(SplitOnce(text, ";"))[2]))
    ELSE None

\* parse_packet of the `id;address` listeners: String::from_utf8(..).unwrap()
\* panics on bytes that are no text; else Some((id, address)) or None
ParsePacket(packet) ==
    IF ~IsUtf8(packet) THEN [panics |-> TRUE, parsed |-> None]
    ELSE LET id == ParseU64(FirstField(packet))
             address == IF IsSome(SecondField(packet))
                        THEN ParseAddr(Unwrap(SecondField(packet)))
                        ELSE None
         IN [panics |-> FALSE,
             parsed |-> IF IsSome(id) /\ IsSome(address)
                        THEN Some([peer_id |-> Unwrap(id), peer_addr |-> Unwrap(address)])
                        ELSE None]

MaxDeviceDatagrams == 2

\* the datagrams a socket of the group of the `id;address` listeners can get
DeviceDatagrams ==
    {[bytes |-> b, src |-> "192.168.1.20"] :
        b \in {<<"1", ";", "10.0.0.5", ":", "8", "0">>,
               <<"2", ";", "0.0.0.0", ":", "8", "0">>,
               <<"1", ";", "10.0.0.5", ":", "8", "0", ";", "z">>,
               <<"x", ";", "10.0.0.5", ":", "8", "0">>,
               <<"1">>,
               <<"1", ";", "10.0.0.5">>,
               <<>>,
               <<"BAD">>,
               <<"1", ";", "10.0.0.5", ":", "8", "0", ";", "BAD">>}}

\* one iteration of the loop of discover_devices / discover_peers of the
\* `id;address` listeners up to the inner block: recv_from, parse_packet, the
\* substitution of the source IP
DeviceListenerRecv ==
    /\ UNCHANGED <<ipcVars, codecVars, transferVars, announceVars, poisoned>>
    /\ lpc = "recv"
    /\ nrecv < MaxDeviceDatagrams
    /\ nrecv' = nrecv + 1
    /\ \/ /\ lpc' = "recv"
          /\ outcome' = "recv error"
          /\ ann' = ann
       \/ \E d \in DeviceDatagrams :
             LET r == ParsePacket(d.bytes)
             IN IF r.panics
                THEN lpc' = "panicked" /\ outcome' = "invalid text" /\ ann' = ann
                ELSE IF ~IsSome(r.parsed)
                THEN lpc' = "recv" /\ outcome' = "malformed" /\ ann' = ann
                ELSE /\ lpc' = "trylock"
                     /\ outcome' = "decoded"
                     /\ ann' = [peer_id |-> Unwrap(r.parsed).peer_id,
                                peer_addr |-> StoredAddr(Unwrap(r.parsed).peer_addr, d.src)]
    /\ UNCHANGED <<startResult, peers, lockHolder, lastDecoded, skippedIds, qpc, qres>>

\* peer_map.lock() in the place of try_lock(): waits for the mutex
ListenerTryLock_Blocking ==
    /\ UNCHANGED <<ipcVars, codecVars, transferVars, announceVars, poisoned>>
    /\ lpc = "trylock"
    /\ lockHolder = "none"
    /\ lockHolder' = "listener"
    /\ lpc' = "locked"
    /\ UNCHANGED <<startResult, peers, ann, nrecv, outcome, lastDecoded, skippedIds, qpc, qres>>

\* peer_map.try_lock(): the guard (from Ok, or from Poisoned through
\* into_inner), or WouldBlock and the next iteration
ListenerTryLock ==
    /\ UNCHANGED <<ipcVars, codecVars, transferVars, announceVars, poisoned>>
    /\ lpc = "trylock"
    /\ IF lockHolder = "none"
       THEN /\ lockHolder' = "listener"
            /\ lpc' = "locked"
            /\ UNCHANGED <<ann, outcome>>
       ELSE /\ lpc' = "recv"
            /\ ann' = NoAnn
            /\ outcome' = "skipped"
            /\ UNCHANGED lockHolder
    /\ UNCHANGED <<startResult, peers, nrecv, lastDecoded, skippedIds, qpc, qres>>

\* peer_map.entry(id).or_insert(addr) in the place of insert: the first write wins
ListenerInsert_KeepFirst ==
    /\ UNCHANGED <<ipcVars, codecVars, transferVars, announceVars, poisoned>>
    /\ lpc = "locked"
    /\ peers' = IF ann.peer_id \in DOMAIN peers THEN peers
                ELSE MapInsert(peers, ann.peer_id, ann.peer_addr)
    /\ lockHolder' = "none"
    /\ lpc' = "recv"
    /\ ann' = NoAnn
    /\ outcome' = "stored"
    /\ skippedIds' = skippedIds \ {ann.peer_id}
    /\ UNCHANGED <<startResult, nrecv, lastDecoded, qpc, qres>>

\* a map that is emptied before the insert
ListenerInsert_Replace ==
    /\ UNCHANGED <<ipcVars, codecVars, transferVars, announceVars, poisoned>>
    /\ lpc = "locked"
    /\ peers' = MapInsert(EmptyMap, ann.peer_id, ann.peer_addr)
    /\ lockHolder' = "none"
    /\ lpc' = "recv"
    /\ ann' = NoAnn
    /\ outcome' = "stored"
    /\ skippedIds' = skippedIds \ {ann.peer_id}
    /\ UNCHANGED <<startResult, nrecv, lastDecoded, qpc, qres>>

\* a guard that outlives the inner block: the lock stays with the listener
ListenerInsert_HoldLock ==
    /\ UNCHANGED <<ipcVars, codecVars, transferVars, announceVars, poisoned>>
    /\ lpc = "locked"
    /\ peers' = MapInsert(peers, ann.peer_id, ann.peer_addr)
    /\ lockHolder' = lockHolder
    /\ lpc' = "recv"
    /\ ann' = NoAnn
    /\ outcome' = "stored"
    /\ skippedIds' = skippedIds \ {ann.peer_id}
    /\ UNCHANGED <<startResult, nrecv, lastDecoded, qpc, qres>>

\* peer_map.insert and the end of the inner block, which drops the guard
ListenerInsert ==
    /\ UNCHANGED <<ipcVars, codecVars, transferVars, announceVars, poisoned>>
    /\ lpc = "locked"
    /\ peers' = MapInsert(peers, ann.peer_id, ann.peer_addr)
    /\ lockHolder' = "none"
    /\ lpc' = "recv"
    /\ ann' = NoAnn
    /\ outcome' = "stored"
    /\ skippedIds' = skippedIds \ {ann.peer_id}
    /\ UNCHANGED <<startResult, nrecv, lastDecoded, qpc, qres>>

\* without the is_empty() test: Some of an empty collection
PeerIdsOf_NoEmptyTest(m) == Some(DOMAIN m)

\* the answers of the query functions on the map m
PeerIdsOf(m) == IF m = EmptyMap THEN None ELSE Some(DOMAIN m)
PeerAddrsOf(m, order) == IF m = EmptyMap THEN None ELSE Some([i \in DOMAIN order |-> m[order[i]]])
\* an entry of the map, whatever its id
FindPeerAddr_Any(m, id) == IF m = EmptyMap THEN None ELSE Some(m[CHOOSE k \in DOMAIN m : TRUE])
FindPeerAddr(m, id) == IF id \in DOMAIN m THEN Some(m[id]) ELSE None

\* self.peers.lock() of a query function: blocks until the mutex is free; the
\* result is Ok(guard), or Err(PoisonError) holding the guard
QueryLock(q, kind, id) ==
    /\ UNCHANGED <<ipcVars, codecVars, transferVars, announceVars, poisoned>>
    /\ qpc[q].pc = "idle"
    /\ lockHolder = "none"
    /\ lockHolder' = q
    /\ qpc' = [qpc EXCEPT ![q] = [pc |-> "locked", kind |-> kind, id |-> id]]
    /\ UNCHANGED <<startResult, lpc, peers, ann, nrecv, outcome, lastDecoded, skippedIds, qres>>

\* a query function is called: the caller reaches self.peers.lock() and waits
QueryCall(q, kind, id) ==
    /\ UNCHANGED <<ipcVars, codecVars, transferVars, announceVars, poisoned>>
    /\ qpc[q].pc = "idle"
    /\ qpc' = [qpc EXCEPT ![q] = [pc |-> "waiting", kind |-> kind, id |-> id]]
    /\ UNCHANGED <<startResult, lpc, peers, lockHolder, ann, nrecv, outcome, lastDecoded,
                   skippedIds, qres>>

\* self.peers.lock() returns to a waiting caller once the mutex is free
QueryAcquire(q) ==
    /\ UNCHANGED <<ipcVars, codecVars, transferVars, announceVars, poisoned>>
    /\ qpc[q].pc = "waiting"
    /\ lockHolder = "none"
    /\ lockHolder' = q
    /\ qpc' = [qpc EXCEPT ![q].pc = "locked"]
    /\ UNCHANGED <<startResult, lpc, peers, ann, nrecv, outcome, lastDecoded, skippedIds, qres>>

\* a caller's thread fails while its query holds the guard: the guard is
\* dropped during the unwinding, which sets the poison flag
QueryPanic(q) ==
    /\ UNCHANGED <<ipcVars, codecVars, transferVars, announceVars>>
    /\ qpc[q].pc = "locked"
    /\ lockHolder = q
    /\ ~poisoned
    /\ poisoned' = TRUE
    /\ lockHolder' = "none"
    /\ qpc' = [qpc EXCEPT ![q] = [pc |-> "panicked", kind |-> "", id |-> 0]]
    /\ UNCHANGED <<startResult, lpc, peers, ann, nrecv, outcome, lastDecoded, skippedIds, qres>>

\* a find that takes the entry out of the map (remove in the place of get)
QueryReturn_Take(q) ==
    /\ UNCHANGED <<ipcVars, codecVars, transferVars, announceVars, poisoned>>
    /\ qpc[q].pc = "locked"
    /\ lockHolder = q
    /\ \/ /\ qpc[q].kind = "ids"
          /\ qres' = [kind |-> "ids", id |-> 0,
                       answer |-> IF poisoned THEN None ELSE PeerIdsOf(peers)]
          /\ peers' = peers
       \/ /\ qpc[q].kind = "addrs"
          /\ \E order \in Orderings(DOMAIN peers) :
                 qres' = [kind |-> "addrs", id |-> 0,
                          answer |-> IF poisoned THEN None ELSE PeerAddrsOf(peers, order)]
          /\ peers' = peers
       \/ /\ qpc[q].kind = "find"
          /\ qres' = [kind |-> "find", id |-> qpc[q].id,
                       answer |-> IF poisoned THEN None ELSE FindPeerAddr(peers, qpc[q].id)]
          /\ peers' = [k \in DOMAIN peers \ {qpc[q].id} |-> peers[k]]
    /\ lockHolder' = "none"
    /\ qpc' = [qpc EXCEPT ![q] = QueryIdle]
    /\ UNCHANGED <<startResult, lpc, ann, nrecv, outcome, lastDecoded, skippedIds>>

\* .ok() turns the PoisonError into None and the Ok(guard) into Some(guard);
\* then the closure of the query function runs; the guard is dropped
QueryReturn(q) ==
    /\ UNCHANGED <<ipcVars, codecVars, transferVars, announceVars, poisoned>>
    /\ qpc[q].pc = "locked"
    /\ lockHolder = q
    /\ \/ /\ qpc[q].kind = "ids"
          /\ qres' = [kind |-> "ids", id |-> 0,
                       answer |-> IF poisoned THEN None ELSE PeerIdsOf(peers)]
       \/ /\ qpc[q].kind = "addrs"
          /\ \E order \in Orderings(DOMAIN peers) :
                 qres' = [kind |-> "addrs", id |-> 0,
                          answer |-> IF poisoned THEN None ELSE PeerAddrsOf(peers, order)]
       \/ /\ qpc[q].kind = "find"
          /\ qres' = [kind |-> "find", id |-> qpc[q].id,
                       answer |-> IF poisoned THEN None ELSE FindPeerAddr(peers, qpc[q].id)]
    /\ lockHolder' = "none"
    /\ qpc' = [qpc EXCEPT ![q] = QueryIdle]
    /\ UNCHANGED <<startResult, lpc, peers, ann, nrecv, outcome, lastDecoded, skippedIds>>

announcerIdle == <<ipcVars, codecVars, transferVars, startResult, lpc, peers, lockHolder, poisoned, ann,
                   nrecv, outcome, lastDecoded, skippedIds, qpc, qres>>

\* after a call of announce_peer failed: `?` returns the error
AnnounceFail ==
    /\ apc' = "done"
    /\ announceResult' = "err"
    /\ UNCHANGED <<sockLoop, selfLooped, remotePeers>>

\* announce_peer: UdpSocket::bind("0.0.0.0:0"); a new socket loops multicast back
AnnounceBind ==
    /\ UNCHANGED announcerIdle
    /\ apc = "idle"
    /\ \/ /\ apc' = "bound"
          /\ sockLoop' = TRUE
          /\ UNCHANGED <<announceResult, selfLooped, remotePeers>>
       \/ AnnounceFail

\* announce_peer without the call of set_multicast_loop_v4
AnnounceSetLoop_Skipped ==
    /\ UNCHANGED announcerIdle
    /\ apc = "bound"
    /\ apc' = "ready"
    /\ UNCHANGED <<announceResult, sockLoop, selfLooped, remotePeers>>

\* announce_peer: socket.set_multicast_loop_v4(false)
AnnounceSetLoop ==
    /\ UNCHANGED announcerIdle
    /\ apc = "bound"
    /\ \/ /\ apc' = "ready"
          /\ sockLoop' = FALSE
          /\ UNCHANGED <<announceResult, selfLooped, remotePeers>>
       \/ AnnounceFail

\* announce_peer: socket.send_to(pkt, group); the host delivers the datagram to
\* its own members of the group exactly if the sending socket loops back
AnnounceSend ==
    /\ UNCHANGED announcerIdle
    /\ apc = "ready"
    /\ \/ /\ apc' = "done"
          /\ announceResult' = "ok"
          /\ selfLooped' = sockLoop
          /\ UNCHANGED <<sockLoop, remotePeers>>
       \/ AnnounceFail

\* the listener of another peer of the group receives the announcement and
\* stores it
RemoteReceive ==
    /\ UNCHANGED announcerIdle
    /\ announceResult = "ok"
    /\ \E d \in SelfDatagrams :
          /\ DatagramDecoding[d].ok
          /\ remotePeers' = MapInsert(remotePeers, DatagramDecoding[d].peer_id,
                                      StoredAddr(DatagramDecoding[d].peer_addr, d.src))
    /\ UNCHANGED <<apc, announceResult, sockLoop, selfLooped>>

\* the announcer, the listener of this peer and a listener of another peer
NextAnnounce ==
    \/ DiscovererStart
    \/ ListenerBind
    \/ ListenerRecv
    \/ ListenerTryLock
    \/ ListenerInsert
    \/ AnnounceBind
    \/ AnnounceSetLoop
    \/ AnnounceSend
    \/ RemoteReceive

NextDiscovery ==
    \/ DiscovererStart
    \/ ListenerBind
    \/ ListenerRecv
    \/ ListenerTryLock
    \/ ListenerInsert
    \/ \E q \in Queriers : QueryLock(q, "ids", 0)
    \/ \E q \in Queriers : QueryLock(q, "addrs", 0)
    \/ \E q \in Queriers, id \in PeerIds : QueryLock(q, "find", id)
    \/ \E q \in Queriers : QueryPanic(q)
    \/ \E q \in Queriers : QueryReturn(q)

\* an `id;address` listener and the callers of the query functions
NextDevices ==
    \/ DiscovererStart
    \/ ListenerBind
    \/ DeviceListenerRecv
    \/ ListenerTryLock
    \/ ListenerInsert
    \/ \E q \in Queriers : QueryLock(q, "ids", 0)
    \/ \E q \in Queriers : QueryReturn(q)

-----------------------------------------------------------------------------
(* Claims about discovery *)

\* the datagram d decodes to the id, and the address has the announced port
\* and the announced IP, or the source IP of d where the announced IP is the
\* unspecified one
ProducedBy(d, id, addr) ==
    /\ DatagramDecoding[d].ok
    /\ DatagramDecoding[d].peer_id = id
    /\ addr.port = DatagramDecoding[d].peer_addr.port
    /\ \/ addr.ip = DatagramDecoding[d].peer_addr.ip
       \/ DatagramDecoding[d].peer_addr.ip = "0.0.0.0" /\ addr.ip = d.src

\* C37: every entry of the registry is produced by a datagram of the group:
\* the announcement the listener holds after a receive is produced by the
\* datagram received, the registry changes only by the insert of the
\* announcement held, and so every entry has the id, the port and the IP (or,
\* for the unspecified IP, the source IP) of a datagram; no entry has the
\* unspecified IP, as no datagram comes from it.
C37_EntriesFromDatagrams ==
    /\ [](\A id \in DOMAIN peers :
             /\ \E d \in Datagrams \cup SelfDatagrams : ProducedBy(d, id, peers[id])
             /\ peers[id].ip # "0.0.0.0")
    /\ [][/\ \A d \in Datagrams \cup SelfDatagrams :
                ((lpc = "recv" /\ nrecv' = nrecv + 1 /\ lpc' = "trylock" /\ ReceiveDatagram(d))
                    => ProducedBy(d, ann'.peer_id, ann'.peer_addr))
          /\ (peers' # peers) =>
                (lpc = "locked" /\ peers' = MapInsert(peers, ann.peer_id, ann.peer_addr))]_vars

\* the registry holds two entries, one of them with the source IP of its datagram
C37_Witness ==
    /\ lpc = "recv"
    /\ Cardinality(DOMAIN peers) = 2
    /\ \E id \in DOMAIN peers : peers[id].ip \in SourceIps

\* C36: a step of an `id;address` listener that receives a datagram which is
\* no announcement, be it no text at all, leaves the listener in its loop,
\* at the next recv_from, and the map as it was.
C36_MalformedKeepsLoop ==
    [][(lpc = "recv" /\ nrecv' = nrecv + 1 /\ outcome' \in {"malformed", "invalid text"})
          => (lpc' = "recv" /\ peers' = peers)]_vars



Running == {"recv", "trylock", "locked"}

\* C4: the listener never waits for the registry lock: at try_lock it always
\* has a step to take, and when a query holds the lock that step skips the
\* update (the registry stays as it is, nothing of this datagram is stored
\* later) and goes back to receiving.
C4_ListenerNeverWaits ==
    /\ [](lpc = "trylock" => ENABLED ListenerTryLock)
    /\ [][(lpc = "trylock" /\ lockHolder \in Queriers /\ lpc' # lpc)
             => (lpc' = "recv" /\ peers' = peers /\ ann' = NoAnn /\ outcome' = "skipped")]_vars

\* an update was skipped while a query held the lock
C4_Witness == outcome = "skipped" /\ lpc = "recv" /\ lockHolder \in Queriers

\* C5 (as claimed): between two datagrams the registry entry of every id is the
\* address of the last announcement decoded for that id.
C5_RegistryIsLastProcessed == lpc = "recv" => peers = lastDecoded

\* C5 (amended): between two datagrams the registry holds only ids that were
\* announced, and the entry of every id whose last decoded announcement was not
\* skipped for a held lock is the address of that announcement.
C5_RegistryIsLastStored ==
    lpc = "recv" =>
        /\ DOMAIN peers \subseteq DOMAIN lastDecoded
        /\ \A id \in (DOMAIN lastDecoded) \ skippedIds :
               id \in DOMAIN peers /\ peers[id] = lastDecoded[id]

\* one id holds its last announcement, another one holds an older address
\* because its last announcement was skipped
C5_Witness ==
    /\ lpc = "recv"
    /\ \E id \in DOMAIN peers : id \notin skippedIds /\ peers[id] = lastDecoded[id]
    /\ \E id \in DOMAIN peers : id \in skippedIds /\ peers[id] # lastDecoded[id]

\* C6: when the listener could not bind (the thread returned the error),
\* PeerDiscoverer::start has returned an error.
C6_StartReportsBindFailure == lpc = "exited" => startResult = "err"

\* C10: once running the listener stays running, and a datagram that is no
\* announcement leaves the registry and the pending announcement alone and
\* takes the listener straight back to recv_from.
C10_MalformedDatagramIgnored ==
    [][/\ lpc \in Running => lpc' \in Running
       /\ \A d \in Datagrams :
              (d.kind # "valid" /\ lpc = "recv" /\ nrecv' = nrecv + 1 /\ ReceiveDatagram(d))
                  => (lpc' = "recv" /\ peers' = peers /\ ann' = ann /\ outcome' = "malformed")]_vars

\* a malformed datagram was received with a non-empty registry and the
\* listener is back at recv_from
C10_Witness == outcome = "malformed" /\ lpc = "recv" /\ peers # EmptyMap /\ nrecv < MaxDatagrams

\* C13: an announcement that decodes with the unspecified IP is kept with the
\* source IP of its datagram and the announced port, any other announcement is
\* kept as announced; and what the listener stores under the lock is the
\* address kept for the announcement.
C13_UnspecifiedIpReplaced ==
    [][/\ \A d \in Datagrams :
              (/\ lpc = "recv" /\ nrecv' = nrecv + 1
               /\ DatagramDecoding[d].ok /\ ReceiveDatagram(d))
                  => LET a == DatagramDecoding[d].peer_addr
                     IN /\ ann'.peer_id = DatagramDecoding[d].peer_id
                        /\ ann'.peer_addr = IF a.ip = "0.0.0.0"
                                            THEN [ip |-> d.src, port |-> a.port]
                                            ELSE a
       /\ (lpc = "locked" /\ lpc' = "recv")
              => /\ ann.peer_id \in DOMAIN peers'
                 /\ peers'[ann.peer_id] = ann.peer_addr]_vars

\* the registry holds an address whose IP came from the datagram's source and
\* whose port is the announced one, and an address stored as announced
C13_Witness ==
    /\ \E id \in DOMAIN peers : peers[id].ip \in SourceIps /\ peers[id].port = 8080
    /\ \E id \in DOMAIN peers : peers[id] = PeerAddrOf("10.0.0.5")

\* C14: while the mutex is not poisoned, the registry changes only by an
\* upsert, an upsert of id X sets the entry of X and leaves the presence and
\* the address of every other id alone, and find(id) answers the entry of id,
\* or None for an id that has none: find answers the last upsert of the id.
C14_LastWriteWins ==
    [][~poisoned =>
        /\ (lpc = "locked" /\ lpc' = "recv")
              => /\ DOMAIN peers' = DOMAIN peers \cup {ann.peer_id}
                 /\ peers'[ann.peer_id] = ann.peer_addr
                 /\ \A y \in DOMAIN peers : y # ann.peer_id => peers'[y] = peers[y]
        /\ ~(lpc = "locked" /\ lpc' = "recv") => peers' = peers
        /\ \A q \in Queriers :
              (qpc[q].pc = "locked" /\ qpc[q].kind = "find" /\ qpc'[q].pc = "idle")
                  => /\ qres'.id = qpc[q].id
                     /\ qres'.answer = IF qpc[q].id \in DOMAIN peers
                                       THEN <<peers[qpc[q].id]>>
                                       ELSE <<>>]_vars

\* find answered an address for an id, a later upsert replaced that address,
\* and the registry holds another id as well
C14_Witness ==
    /\ ~poisoned
    /\ qres.kind = "find" /\ qres.answer # <<>>
    /\ qres.id \in DOMAIN peers /\ peers[qres.id] # qres.answer[1]
    /\ Cardinality(DOMAIN peers) = 2

\* C15: while the mutex is not poisoned, peer_ids and peer_addresses answer
\* None exactly on an empty registry, otherwise peer_ids answers the set of the
\* ids present and peer_addresses one address for each entry present; the
\* registry does not change while a query holds the lock.
C15_SnapshotQueries ==
    [][~poisoned =>
        /\ lockHolder \in Queriers => peers' = peers
        /\ \A q \in Queriers :
              (qpc[q].pc = "locked" /\ qpc'[q].pc = "idle") =>
                  /\ qpc[q].kind = "ids" =>
                        qres'.answer = IF DOMAIN peers = {} THEN <<>> ELSE <<DOMAIN peers>>
                  /\ qpc[q].kind = "addrs" =>
                        IF DOMAIN peers = {} THEN qres'.answer = <<>>
                        ELSE /\ Len(qres'.answer) = 1
                             /\ \E order \in Orderings(DOMAIN peers) :
                                    qres'.answer[1] = [i \in 1..Cardinality(DOMAIN peers)
                                                          |-> peers[order[i]]]]_vars

\* peer_ids answered the two ids of a registry of two entries
C15_Witness == ~poisoned /\ qres.kind = "ids" /\ qres.answer = <<{1, 2}>>

\* C17: the registry of a peer never holds the peer's own id, whatever it
\* announced.
C17_NeverDiscoversItself == MyId \notin DOMAIN peers

\* the peer has announced itself, another peer of the group has stored the
\* announcement, and the peer's own listener has stored announcements since
C17_Witness ==
    /\ announceResult = "ok"
    /\ MyId \in DOMAIN remotePeers /\ remotePeers[MyId] = PeerAddrOf(MyIp)
    /\ lpc = "recv" /\ peers # EmptyMap

\* the answers a query of the given kind may give on the map m
AnswersOn(m, kind, id) ==
    IF kind = "ids" THEN {PeerIdsOf(m)}
    ELSE IF kind = "addrs" THEN {PeerAddrsOf(m, order) : order \in Orderings(DOMAIN m)}
    ELSE {FindPeerAddr(m, id)}

\* C12: while the registry lock is poisoned, the listener that finds the lock
\* free takes it and stores its announcement, and a query that returns answers
\* from the contents of the map.
C12_PoisonRecovered ==
    [][poisoned =>
        /\ (lpc = "trylock" /\ lockHolder = "none" /\ lpc' # lpc) => lpc' = "locked"
        /\ (lpc = "locked" /\ lpc' # lpc)
              => peers' = MapInsert(peers, ann.peer_id, ann.peer_addr)
        /\ \A q \in Queriers :
              (qpc[q].pc = "locked" /\ qpc'[q].pc = "idle")
                  => qres'.answer \in AnswersOn(peers, qpc[q].kind, qpc[q].id)]_vars

\* C25: no step removes an entry of the registry: every id of the registry is
\* still in it after the step.
C25_RegistryOnlyGrows == [][DOMAIN peers \subseteq DOMAIN peers']_vars

\* the registry holds two ids and the listener has stored an announcement of
\* one of them again since
C25_Witness ==
    /\ DOMAIN peers = {1, 2} /\ nrecv = MaxDatagrams
    /\ outcome = "stored" /\ lpc = "recv"

-----------------------------------------------------------------------------
(* File transfer: src/src/sender.rs, src/src/transfer/sender.rs,            *)
(* src/src/receiver.rs, src/src/app.rs                                      *)

DATA_SECTIONS_SEPARATOR == <<":", ":">>
FILE_NAME_PREFIX == <<"file_name", ":", "SP">>

IsWhitespace(c) == c \in {"SP", "NL", "CR"}

\* str::trim
RECURSIVE TrimStart(_)
TrimStart(s) == IF s # <<>> /\ IsWhitespace(Head(s)) THEN TrimStart(Tail(s)) ELSE s
RECURSIVE TrimEnd(_)
TrimEnd(s) ==
    IF s # <<>> /\ IsWhitespace(s[Len(s)]) THEN TrimEnd(SubSeq(s, 1, Len(s) - 1)) ELSE s
Trim(s) == TrimEnd(TrimStart(s))

\* Display of DataHeader
DataHeaderToString(file_name) == FILE_NAME_PREFIX \o file_name \o <<"NL">>

\* DataHeader::from_str: Some(file_name), or None for MissingName
DataHeaderFromStr(s) ==
    LET t == Trim(s)
    IN IF Len(t) >= Len(FILE_NAME_PREFIX) /\ SubSeq(t, 1, Len(FILE_NAME_PREFIX)) = FILE_NAME_PREFIX
       THEN Some(SubSeq(t, Len(FILE_NAME_PREFIX) + 1, Len(t)))
       ELSE None

\* String::from_utf8_lossy
FromUtf8Lossy(bytes) == [i \in DOMAIN bytes |-> IF bytes[i] = "BAD" THEN "FFFD" ELSE bytes[i]]

\* str::split("::"), non-overlapping from the left
RECURSIVE SplitSections(_)
SplitSections(s) ==
    LET p == WindowsPosition(s, DATA_SECTIONS_SEPARATOR)
    IN IF p = 0 THEN <<s>>
       ELSE <<SubSeq(s, 1, p - 1)>>
            \o SplitSections(SubSeq(s, p + Len(DATA_SECTIONS_SEPARATOR), Len(s)))

ReadOk(name, contents) == [ok |-> TRUE, err |-> "", file_name |-> name, contents |-> contents]
ReadErr(e) == [ok |-> FALSE, err |-> e, file_name |-> <<>>, contents |-> <<>>]

\* the body of the accept loop of App::start_data_receiver after read_to_end
ReadDataApp(bytes) ==
    LET data == FromUtf8Lossy(bytes)
        sections == SplitSections(data)
        header == DataHeaderFromStr(sections[1])
    IN IF IsSome(header)
       THEN ReadOk(Unwrap(header), IF Len(sections) >= 2 THEN sections[2] ELSE <<>>)
       ELSE ReadErr("DataHeaderParseError")

\* read_data_from_peer after read_to_end
ReadDataFromPeer(data) ==
    LET separator_len == Len(DATA_SECTIONS_SEPARATOR)
        separator_index == WindowsPosition(data, DATA_SECTIONS_SEPARATOR)
    IN IF separator_index = 0 THEN ReadErr("SectionsSeparatorNotFound")
       ELSE LET head == SubSeq(data, 1, separator_index - 1)
                header == DataHeaderFromStr(IF IsUtf8(head) THEN head ELSE <<>>)
            IN IF IsSome(header)
               THEN ReadOk(Unwrap(header),
                           SubSeq(data, separator_index + separator_len, Len(data)))
               ELSE ReadErr("DataHeaderParseError")

\* FilePacket::from_bytes: whatever Packet::from_bytes returns
FilePacketFromBytes(bytes) == PacketFromBytes(bytes)

\* FilePacket::get_file_name
GetFileName(packet) ==
    IF IsSome(GetHeader(packet.headers, <<"file_name">>))
    THEN Unwrap(GetHeader(packet.headers, <<"file_name">>))
    ELSE <<"undefined">>

\* FilePacket::get_contents
GetContents(packet) == PayloadBytes(packet.payload)

\* the receiver of the file packets (src/src/transfer/receiver.rs is declared
\* in src/src/transfer/mod.rs and absent): the bytes read to the end are
\* decoded with FilePacket::from_bytes, and the name and contents the packet
\* gives are what is saved
ReadDataFilePacket(bytes) ==
    LET packet == FilePacketFromBytes(bytes)
    IN IF packet.ok
       THEN ReadOk(GetFileName(packet), GetContents(packet))
       ELSE ReadErr(packet.err)

ReadData(impl, bytes) ==
    IF impl = "app" THEN ReadDataApp(bytes)
    ELSE IF impl = "transfer" THEN ReadDataFilePacket(bytes)
    ELSE ReadDataFromPeer(bytes)

\* path.file_name(): the last component of the path
FileNameOf(path) == path[Len(path)]

\* the buffer send_file_to_all builds
SenderData(path, contents) ==
    DataHeaderToString(FileNameOf(path)) \o DATA_SECTIONS_SEPARATOR \o contents

MaxAddrs == 2
MaxClientConns == 1

\* what is behind each address: the receiver of the model, another peer that
\* accepts, nobody (connect is refused), a peer that resets during the write
AddrBehaviour == [R |-> "receiver", P |-> "accepts", X |-> "refuses", W |-> "resets"]
Addrs == DOMAIN AddrBehaviour
Accepting(a) == AddrBehaviour[a] \in {"receiver", "accepts"}

\* the address lists send_file_to_all is called with: distinct peer addresses
AddrLists ==
    {q \in BoundedSeq(Addrs, MaxAddrs) : \A i, j \in DOMAIN q : q[i] = q[j] => i = j}

\* the paths send_file_to_all is called with and what is there
SendFiles ==
    {[path |-> <<<<"docs">>, <<"a.txt">>>>, kind |-> "file", contents |-> <<"x", "y", "z">>],
     [path |-> <<<<"a.txt">>>>, kind |-> "file", contents |-> <<"x", ":", ":", "y">>],
     [path |-> <<<<"a.txt">>>>, kind |-> "file", contents |-> <<"BAD">>],
     [path |-> <<<<"b", ":", ":", "c">>>>, kind |-> "file", contents |-> <<"x">>],
     [path |-> <<<<"a.txt">>>>, kind |-> "unreadable", contents |-> <<>>],
     [path |-> <<<<"docs">>>>, kind |-> "dir", contents |-> <<>>]}

\* what other TCP clients write to the receiver
ClientBytes ==
    {<<"file_name", ":", "SP", "c.txt", "NL", ":", ":", "w">>,
     <<"file_name", ":", "SP", "c.txt">>,
     <<"junk">>,
     <<"file_name", ":", "SP", "d", "/", "c.txt", "NL", ":", ":", "w">>}

\* fs::write fails for a name in a directory that does not exist, and for the
\* empty name, which joined to the save directory is the directory itself
WriteFails(file_name) == file_name = <<>> \/ "/" \in Range(file_name)

\* io::Result<()>: Ok(()), or an io::Error, which has a kind and carries no address
NoResult == [done |-> FALSE, ok |-> FALSE, kind |-> "", addrs |-> {}]
ResultOk == [done |-> TRUE, ok |-> TRUE, kind |-> "", addrs |-> {}]
ResultErr(kind) == [done |-> TRUE, ok |-> FALSE, kind |-> kind, addrs |-> {}]

NoFile == [path |-> <<>>, kind |-> "", contents |-> <<>>]

InitTransfer ==
    /\ receiverImpl \in {"app", "receiver"}
    /\ spc = "idle"
    /\ sAddrs = <<>>
    /\ sFile = NoFile
    /\ sData = <<>>
    /\ sIdx = 0
    /\ sResult = NoResult
    /\ attempted = {}
    /\ delivered = {}
    /\ conns = <<>>
    /\ nAccepted = 0
    /\ rpc = "accept"
    /\ events = <<>>
    /\ files = EmptyMap

\* the peer whose receiver reads file packets
InitFilePacket ==
    /\ receiverImpl = "transfer"
    /\ spc = "idle"
    /\ sAddrs = <<>>
    /\ sFile = NoFile
    /\ sData = <<>>
    /\ sIdx = 0
    /\ sResult = NoResult
    /\ attempted = {}
    /\ delivered = {}
    /\ conns = <<>>
    /\ nAccepted = 0
    /\ rpc = "accept"
    /\ events = <<>>
    /\ files = EmptyMap

senderVars == <<spc, sAddrs, sFile, sData, sIdx, sResult, attempted, delivered>>

\* send_file_to_all up to the loop over the addresses
SendStart(addrs, file) ==
    /\ UNCHANGED <<ipcVars, codecVars, discoveryVars>>
    /\ spc = "idle"
    /\ sAddrs' = addrs
    /\ sFile' = file
    /\ IF file.kind # "file"
       THEN \* path.is_file() is false and the call panics, or fs::read fails
            /\ spc' = IF file.kind = "dir" THEN "panicked" ELSE "done"
            /\ sResult' = IF file.kind = "dir" THEN NoResult ELSE ResultErr("ReadFailed")
            /\ UNCHANGED <<sData, sIdx>>
       ELSE /\ sData' = SenderData(file.path, file.contents)
            /\ sIdx' = 1
            /\ spc' = IF addrs = <<>> THEN "done" ELSE "connect"
            /\ sResult' = IF addrs = <<>> THEN ResultOk ELSE NoResult
    /\ UNCHANGED <<receiverImpl, attempted, delivered, conns, nAccepted, rpc, events, files>>

\* path.file_name() without effect: the whole path as the file name
FilePacketFromPath_WholePath(path, contents) ==
    [headers |-> MapInsert(EmptyMap, <<"file_name">>,
                           IF Len(path) = 1 THEN path[1] ELSE path[1] \o <<"/">> \o path[2]),
     payload |-> Some(contents)]

\* FilePacket::from_path after fs::read: the header file_name is the last
\* component of the path, the payload is what was read
FilePacketFromPath(path, contents) ==
    [headers |-> MapInsert(EmptyMap, <<"file_name">>, FileNameOf(path)),
     payload |-> Some(contents)]

\* FilePacket::as_owned_bytes
FilePacketAsBytes(packet) == PacketAsBytes(packet.headers, packet.payload, <<<<"file_name">>>>)

\* a read failure taken for an empty file
SendPacketStart_EmptyOnError(addrs, file) ==
    /\ UNCHANGED <<ipcVars, codecVars, discoveryVars>>
    /\ spc = "idle"
    /\ sAddrs' = addrs
    /\ sFile' = file
    /\ IF file.kind = "dir"
       THEN /\ spc' = "panicked"
            /\ sResult' = NoResult
            /\ UNCHANGED <<sData, sIdx>>
       ELSE /\ sData' = FilePacketAsBytes(FilePacketFromPath(file.path, file.contents))
            /\ sIdx' = 1
            /\ spc' = IF addrs = <<>> THEN "done" ELSE "connect"
            /\ sResult' = IF addrs = <<>> THEN ResultOk ELSE NoResult
    /\ UNCHANGED <<receiverImpl, attempted, delivered, conns, nAccepted, rpc, events, files>>

\* send_file_to_all of src/src/transfer/sender.rs up to the loop over the addresses
SendPacketStart(addrs, file) ==
    /\ UNCHANGED <<ipcVars, codecVars, discoveryVars>>
    /\ spc = "idle"
    /\ sAddrs' = addrs
    /\ sFile' = file
    /\ IF file.kind # "file"
       THEN \* path.is_file() is false and the call panics, or fs::read fails
            /\ spc' = IF file.kind = "dir" THEN "panicked" ELSE "done"
            /\ sResult' = IF file.kind = "dir" THEN NoResult ELSE ResultErr("ReadFailed")
            /\ UNCHANGED <<sData, sIdx>>
       ELSE /\ sData' = FilePacketAsBytes(FilePacketFromPath(file.path, file.contents))
            /\ sIdx' = 1
            /\ spc' = IF addrs = <<>> THEN "done" ELSE "connect"
            /\ sResult' = IF addrs = <<>> THEN ResultOk ELSE NoResult
    /\ UNCHANGED <<receiverImpl, attempted, delivered, conns, nAccepted, rpc, events, files>>

\* after the iteration for sAddrs[sIdx] succeeded
SendAdvance ==
    /\ sIdx' = sIdx + 1
    /\ spc' = IF sIdx = Len(sAddrs) THEN "done" ELSE "connect"
    /\ sResult' = IF sIdx = Len(sAddrs) THEN ResultOk ELSE NoResult

\* after connect or write_all failed with e: `?` returns from the function
SendFail(e) ==
    /\ spc' = "done"
    /\ sResult' = ResultErr(e)
    /\ UNCHANGED sIdx

\* streams that are kept after the write instead of dropped
SendToAddr_KeepOpen ==
    /\ UNCHANGED <<ipcVars, codecVars, discoveryVars>>
    /\ spc = "connect"
    /\ LET addr == sAddrs[sIdx]
       IN /\ attempted' = attempted \cup {addr}
          /\ \/ /\ AddrBehaviour[addr] = "refuses"
                /\ SendFail("ConnectionRefused")
                /\ UNCHANGED <<delivered, conns>>
             \/ /\ AddrBehaviour[addr] = "resets"
                /\ SendFail("WriteFailed")
                /\ UNCHANGED <<delivered, conns>>
             \/ /\ AddrBehaviour[addr] = "accepts"
                /\ SendAdvance
                /\ delivered' = delivered \cup {addr}
                /\ UNCHANGED conns
             \/ /\ AddrBehaviour[addr] = "receiver"
                /\ SendAdvance
                /\ delivered' = delivered \cup {addr}
                /\ conns' = Append(conns, [from |-> "sender", bytes |-> sData, state |-> "open"])
    /\ UNCHANGED <<receiverImpl, sAddrs, sFile, sData, nAccepted, rpc, events, files>>

\* a loop that takes the addresses from the end of the list
SendToAddr_FromTheEnd ==
    /\ UNCHANGED <<ipcVars, codecVars, discoveryVars>>
    /\ spc = "connect"
    /\ LET addr == sAddrs[Len(sAddrs) + 1 - sIdx]
       IN /\ attempted' = attempted \cup {addr}
          /\ \/ /\ AddrBehaviour[addr] = "refuses"
                /\ SendFail("ConnectionRefused")
                /\ UNCHANGED <<delivered, conns>>
             \/ /\ AddrBehaviour[addr] = "resets"
                /\ SendFail("WriteFailed")
                /\ UNCHANGED <<delivered, conns>>
             \/ /\ AddrBehaviour[addr] = "accepts"
                /\ SendAdvance
                /\ delivered' = delivered \cup {addr}
                /\ UNCHANGED conns
             \/ /\ AddrBehaviour[addr] = "receiver"
                /\ SendAdvance
                /\ delivered' = delivered \cup {addr}
                /\ conns' = Append(conns, [from |-> "sender", bytes |-> sData, state |-> "closed"])
    /\ UNCHANGED <<receiverImpl, sAddrs, sFile, sData, nAccepted, rpc, events, files>>

\* one iteration of the loop: connect, write_all, and the stream is dropped
SendToAddr ==
    /\ UNCHANGED <<ipcVars, codecVars, discoveryVars>>
    /\ spc = "connect"
    /\ LET addr == sAddrs[sIdx]
       IN /\ attempted' = attempted \cup {addr}
          /\ \/ /\ AddrBehaviour[addr] = "refuses"
                /\ SendFail("ConnectionRefused")
                /\ UNCHANGED <<delivered, conns>>
             \/ /\ AddrBehaviour[addr] = "resets"
                /\ SendFail("WriteFailed")
                /\ UNCHANGED <<delivered, conns>>
             \/ /\ AddrBehaviour[addr] = "accepts"
                /\ SendAdvance
                /\ delivered' = delivered \cup {addr}
                /\ UNCHANGED conns
             \/ /\ AddrBehaviour[addr] = "receiver"
                /\ SendAdvance
                /\ delivered' = delivered \cup {addr}
                /\ conns' = Append(conns, [from |-> "sender", bytes |-> sData, state |-> "closed"])
    /\ UNCHANGED <<receiverImpl, sAddrs, sFile, sData, nAccepted, rpc, events, files>>

NumClientConns == Cardinality({i \in DOMAIN conns : conns[i].from = "client"})

\* another TCP client connects to the receiver, writes and keeps the stream
\* open; `clientBytes` is what the clients write
ClientConnectWith(clientBytes) ==
    /\ UNCHANGED <<ipcVars, codecVars, discoveryVars>>
    /\ NumClientConns < MaxClientConns
    /\ \E bytes \in clientBytes :
           conns' = Append(conns, [from |-> "client", bytes |-> bytes, state |-> "open"])
    /\ UNCHANGED <<receiverImpl, senderVars, nAccepted, rpc, events, files>>

ClientConnect == ClientConnectWith(ClientBytes)

\* that client closes its stream, or the connection is reset
ClientClose ==
    /\ UNCHANGED <<ipcVars, codecVars, discoveryVars>>
    /\ \E i \in DOMAIN conns :
          /\ conns[i].state = "open"
          /\ \E st \in {"closed", "reset"} : conns' = [conns EXCEPT ![i].state = st]
    /\ UNCHANGED <<receiverImpl, senderVars, nAccepted, rpc, events, files>>

\* listener.incoming() yields the next connection
ReceiverAccept ==
    /\ UNCHANGED <<ipcVars, codecVars, discoveryVars>>
    /\ rpc = "accept"
    /\ nAccepted < Len(conns)
    /\ nAccepted' = nAccepted + 1
    /\ rpc' = "reading"
    /\ UNCHANGED <<receiverImpl, senderVars, conns, events, files>>

\* read_to_end returns and the rest of the loop body runs
ReceiverRead ==
    /\ UNCHANGED <<ipcVars, codecVars, discoveryVars>>
    /\ rpc = "reading"
    /\ conns[nAccepted].state # "open"
    /\ LET r == ReadData(receiverImpl, conns[nAccepted].bytes)
       IN IF conns[nAccepted].state = "closed" /\ r.ok
          THEN events' = Append(events, [file_name |-> r.file_name, contents |-> r.contents,
                                         conn |-> nAccepted])
          ELSE UNCHANGED events
    /\ rpc' = "accept"
    /\ UNCHANGED <<receiverImpl, senderVars, conns, nAccepted, files>>

\* write_data that opens the file for appending
AppHandleEvent_Append ==
    /\ UNCHANGED <<ipcVars, codecVars, discoveryVars>>
    /\ events # <<>>
    /\ events' = Tail(events)
    /\ LET e == Head(events)
       IN IF WriteFails(e.file_name)
          THEN UNCHANGED files
          ELSE files' = MapInsert(files, e.file_name,
                                  [contents |-> IF e.file_name \in DOMAIN files
                                                THEN files[e.file_name].contents \o e.contents
                                                ELSE e.contents,
                                   conn |-> e.conn])
    /\ UNCHANGED <<receiverImpl, senderVars, conns, nAccepted, rpc>>

\* `?` on write_data: the failure leaves the loop and the pending events are lost
AppHandleEvent_Bail ==
    /\ UNCHANGED <<ipcVars, codecVars, discoveryVars>>
    /\ events # <<>>
    /\ LET e == Head(events)
       IN IF WriteFails(e.file_name)
          THEN events' = <<>> /\ UNCHANGED files
          ELSE /\ events' = Tail(events)
               /\ files' = MapInsert(files, e.file_name,
                                     [contents |-> e.contents, conn |-> e.conn])
    /\ UNCHANGED <<receiverImpl, senderVars, conns, nAccepted, rpc>>

\* the event loop of App::run takes Event::DataReceived and calls write_data
AppHandleEvent ==
    /\ UNCHANGED <<ipcVars, codecVars, discoveryVars>>
    /\ events # <<>>
    /\ events' = Tail(events)
    /\ LET e == Head(events)
       IN IF WriteFails(e.file_name)
          THEN UNCHANGED files
          ELSE files' = MapInsert(files, e.file_name, [contents |-> e.contents, conn |-> e.conn])
    /\ UNCHANGED <<receiverImpl, senderVars, conns, nAccepted, rpc>>

NextTransfer ==
    \/ \E addrs \in AddrLists, file \in SendFiles : SendStart(addrs, file)
    \/ SendToAddr
    \/ ClientConnect
    \/ ClientClose
    \/ ReceiverAccept
    \/ ReceiverRead
    \/ AppHandleEvent

\* the sender of src/src/transfer/sender.rs and the receiver it sends to
NextSend ==
    \/ \E addrs \in AddrLists, file \in SendFiles : SendPacketStart(addrs, file)
    \/ SendToAddr
    \/ ReceiverAccept
    \/ ReceiverRead
    \/ AppHandleEvent

\* what other TCP clients write to the receiver of file packets
FilePacketClientBytes ==
    {<<"file_name", "=", "c.txt", "NL", ":", ":", "w">>,
     <<":", ":", "w">>,
     <<"size", "=", "1", "NL", ":", ":", "w">>,
     <<"file_name", "=", "NL", ":", ":", "w">>,
     <<"file_name", "=", "c.txt">>}

\* the receiver of file packets, a sender of file packets and other clients
NextFilePacket ==
    \/ \E file \in SendFiles : SendPacketStart(<<"R">>, file)
    \/ SendToAddr
    \/ ClientConnectWith(FilePacketClientBytes)
    \/ ClientClose
    \/ ReceiverAccept
    \/ ReceiverRead
    \/ AppHandleEvent

\* the receiving side alone: a peer sends the receiver the file a.txt, and
\* clients send packets of the same file name and of a name that cannot be
\* written
ReceivedFiles == {f \in SendFiles : f.kind = "file" /\ f.contents = <<"x", "y", "z">>}
ReceivedPackets ==
    {<<"file_name", ":", "SP", "a.txt", "NL", ":", ":", "w">>,
     <<"file_name", ":", "SP", "d", "/", "c.txt", "NL", ":", ":", "w">>}

NextReceive ==
    \/ \E file \in ReceivedFiles : SendStart(<<"R">>, file)
    \/ SendToAddr
    \/ ClientConnectWith(ReceivedPackets)
    \/ ClientClose
    \/ ReceiverAccept
    \/ ReceiverRead
    \/ AppHandleEvent

-----------------------------------------------------------------------------
(* Claims about file transfer *)

\* the call got as far as the loop over the addresses
LoopEntered == sFile.kind = "file"

\* addresses of the call whose connect or write failed
FailedAddrs == attempted \ delivered

\* C2: when send_file_to_all is over, a connect was attempted to every address
\* of the list and every address that accepts has been written the buffer.
C2_AllAddressesAttempted ==
    (spc = "done" /\ LoopEntered) =>
        \A i \in DOMAIN sAddrs :
            /\ sAddrs[i] \in attempted
            /\ Accepting(sAddrs[i]) => sAddrs[i] \in delivered

ReceiverStep == ReceiverAccept \/ ReceiverRead

\* C3: while the receiver reads a connection whose sender keeps the stream
\* open, a later connection that holds a complete valid file and is closed can
\* still be taken and read by the receiver.
C3_ConcurrentConnections ==
    (/\ rpc = "reading"
     /\ conns[nAccepted].state = "open"
     /\ \E j \in (nAccepted + 1)..Len(conns) :
            conns[j].state = "closed" /\ ReadData(receiverImpl, conns[j].bytes).ok)
        => ENABLED ReceiverStep

\* C7: once send_file_to the receiver has returned Ok and the receiver has
\* handled every connection and event, the save directory holds the file under
\* its name with exactly the bytes that were sent (stated here for the file
\* names that hold no separator only, whatever the contents).
C7_EndToEnd ==
    (/\ spc = "done" /\ sResult.ok /\ sAddrs = <<"R">>
     /\ ~HasSeparator(FileNameOf(sFile.path))
     /\ rpc = "accept" /\ nAccepted = Len(conns) /\ events = <<>>)
        => /\ FileNameOf(sFile.path) \in DOMAIN files
           /\ files[FileNameOf(sFile.path)].contents = sFile.contents

\* C8: every file of the save directory comes from a connection whose bytes
\* hold the section separator.
C8_NoSeparatorNoFile ==
    \A name \in DOMAIN files : HasSeparator(conns[files[name].conn].bytes)

\* C9: when send_file_to_all is over, it returned Ok exactly if every address of
\* the list was written the buffer, and otherwise an error that names exactly
\* the addresses whose connect or write failed.
C9_AggregateError ==
    (spc = "done" /\ LoopEntered) =>
        /\ sResult.ok <=> (\A i \in DOMAIN sAddrs : sAddrs[i] \in delivered)
        /\ ~sResult.ok => sResult.addrs = FailedAddrs

\* C16: send_file_to_all called with a path that is no regular file returns
\* the error NotAFile to its caller, and has tried no address.
C16_NotAFileReturned ==
    (sFile.kind = "dir" /\ spc # "idle")
        => /\ spc = "done"
           /\ sResult.done /\ ~sResult.ok /\ sResult.kind = "NotAFile"
           /\ attempted = {}

\* the connections the receiver has read to the end, and what it read
WasRead(i) == i < nAccepted \/ (i = nAccepted /\ rpc = "accept")
Received(i) == ReadData(receiverImpl, conns[i].bytes)
Delivered(i) == WasRead(i) /\ conns[i].state = "closed" /\ Received(i).ok

\* C26: when the event loop writes a received file, the file of that name
\* holds exactly the contents of this packet afterwards, whether a file of the
\* name was there before or not; the directory has no other new name and the
\* other files are as before.
C26_SecondPacketReplaces ==
    [][(events # <<>> /\ events' = Tail(events) /\ ~WriteFails(Head(events).file_name)) =>
          LET e == Head(events)
          IN /\ DOMAIN files' = DOMAIN files \cup {e.file_name}
             /\ files'[e.file_name].contents = e.contents
             /\ \A name \in DOMAIN files \ {e.file_name} : files'[name] = files[name]]_vars

\* two packets of the same file name and different contents were received and
\* written, and the file holds the contents of the second
C26_Witness ==
    /\ Len(conns) = 2 /\ nAccepted = 2 /\ rpc = "accept" /\ events = <<>>
    /\ Delivered(1) /\ Delivered(2)
    /\ Received(1).file_name = Received(2).file_name
    /\ Received(1).contents # <<>>
    /\ Received(1).contents # Received(2).contents
    /\ Received(2).file_name \in DOMAIN files
    /\ files[Received(2).file_name] = [contents |-> Received(2).contents, conn |-> 2]

\* C27: a write that fails stops nothing: every packet the receiver has
\* delivered is waiting in the event queue, or failed to be written, or its
\* file is in the directory; and the event loop can take the next event
\* whenever one waits.
C27_WriteFailureKeepsLoop ==
    /\ \A i \in DOMAIN conns :
           (Delivered(i) /\ ~WriteFails(Received(i).file_name))
               => \/ \E k \in DOMAIN events : events[k].conn = i
                  \/ Received(i).file_name \in DOMAIN files
    /\ events # <<>> => ENABLED AppHandleEvent

\* the write of the first packet failed, the second packet was written after it
C27_Witness ==
    /\ Len(conns) = 2 /\ nAccepted = 2 /\ rpc = "accept" /\ events = <<>>
    /\ Delivered(1) /\ WriteFails(Received(1).file_name)
    /\ Delivered(2) /\ ~WriteFails(Received(2).file_name)
    /\ DOMAIN files = {Received(2).file_name}
    /\ files[Received(2).file_name].conn = 2

\* the encoding of the file packet of the call: the line of the header
\* file_name with the last component of the path, the separator, the bytes of
\* the file
ExpectedFileBytes ==
    <<"file_name", "=">> \o sFile.path[Len(sFile.path)] \o <<"NL", ":", ":">> \o sFile.contents

SenderConns == {i \in DOMAIN conns : conns[i].from = "sender"}

\* C31: from the read of the file to the end of the call, the buffer is the
\* encoding of the file packet (file_name the last component of the path, the
\* payload the bytes of the file), and every connection of the call was
\* written exactly this buffer.
C31_SameEncodingToAll ==
    (LoopEntered /\ spc \in {"connect", "done"}) =>
        /\ sData = ExpectedFileBytes
        /\ \A i \in SenderConns : conns[i].bytes = ExpectedFileBytes

\* a file in a directory was sent to two addresses, one of them the receiver
C31_Witness ==
    /\ spc = "done" /\ sResult.ok /\ Len(sAddrs) = 2 /\ Len(sFile.path) = 2
    /\ SenderConns # {} /\ Cardinality(delivered) = 2

\* C32: when the read of the file fails, the call returns the I/O error, and
\* no connect was attempted and nothing was written to any address.
C32_ReadFailureSendsNothing ==
    (spc # "idle" /\ sFile.kind = "unreadable") =>
        /\ spc = "done" /\ sResult.done /\ ~sResult.ok /\ sResult.kind = "ReadFailed"
        /\ attempted = {} /\ delivered = {} /\ conns = <<>>

\* the call for a file that cannot be read, with addresses that accept, is over
C32_Witness ==
    /\ spc = "done" /\ sFile.kind = "unreadable"
    /\ sAddrs = <<"R", "P">> /\ ~sResult.ok

\* C33: every connection of the sender is closed once its iteration is over,
\* between two iterations as well as after the call, and the receiver that
\* reads such a connection can finish its read.
C33_SenderClosesConnections ==
    /\ \A i \in SenderConns : conns[i].state = "closed"
    /\ (rpc = "reading" /\ nAccepted \in SenderConns) => ENABLED ReceiverRead

\* the receiver reads the connection of the sender while the sender is still
\* in its loop
C33_Witness ==
    /\ spc = "connect" /\ SenderConns # {}
    /\ rpc = "reading" /\ nAccepted \in SenderConns

\* the addresses before position k of the list of the call
AddrPrefix(k) == {sAddrs[i] : i \in 1..k}

\* C38: at every point of the call the addresses written the buffer are a
\* prefix of the list and the addresses tried are that prefix or one more;
\* each iteration tries the address after those tried; no connection of the
\* sender stays open between two iterations.
C38_InListOrder ==
    /\ []((LoopEntered /\ spc \in {"connect", "done"}) =>
             \E k \in 0..Len(sAddrs) :
                 /\ delivered = AddrPrefix(k)
                 /\ attempted = AddrPrefix(k)
                        \/ (k < Len(sAddrs) /\ spc = "done" /\ attempted = AddrPrefix(k + 1)))
    /\ [](\A i \in SenderConns : conns[i].state # "open")
    /\ [][attempted' # attempted =>
             attempted' = attempted \cup {sAddrs[Cardinality(attempted) + 1]}]_vars

\* the first address of two was written the buffer and the second failed
C38_Witness ==
    /\ spc = "done" /\ ~sResult.ok /\ Len(sAddrs) = 2
    /\ delivered = {sAddrs[1]} /\ attempted = {sAddrs[1], sAddrs[2]}

\* the header section of the bytes has a line file_name=<name> with a name
\* that is not empty
NamesAFile(bytes) ==
    \E i \in DOMAIN Lines(BeforeFirstSeparator(bytes)) :
        LET line == Lines(BeforeFirstSeparator(bytes))[i]
        IN Len(line) > 2 /\ line[1] = "file_name" /\ line[2] = "="

\* C34: every file of the save directory comes from a connection whose bytes,
\* when they hold the section separator, name a file in their header section:
\* bytes with the separator and no file_name header, or an empty one, leave no
\* file under any name.
C34_NoNameNoFile ==
    \A name \in DOMAIN files :
        HasSeparator(conns[files[name].conn].bytes) => NamesAFile(conns[files[name].conn].bytes)

-----------------------------------------------------------------------------
(* IPC server: src/src/ipc.rs (src/src/api.rs has the same iterator over a  *)
(* message reader)                                                          *)

MaxIpcConns == 2

\* what the clients of the socket write before they close their end
IpcRequests ==
    {<<"/", "myid">>, <<"/", "myaddr">>, <<"/", "discovered_peers">>,
     <<"/", "send", "SP", "a.txt">>, <<"/", "send_to", "SP", "4", "2", "SP", "a.txt">>,
     <<"/", "send_to", "SP", "x", "SP", "a.txt">>, <<"/", "send_to", "SP", "4">>,
     <<"/", "myid", "NL">>, <<"/", "hello">>, <<"myid">>, <<>>, <<"/", "BAD">>}

\* what happens to a connection: it is accepted and read, accept fails, or the
\* read fails
IpcFates == {"ok", "accept error", "read error"}

CommandOf(name, peer_id, file_name) ==
    [name |-> name, peer_id |-> peer_id, file_name |-> file_name]

FirstWord(text) ==
    IF IsSome(SplitOnce(text, "SP")) THEN Unwrap(SplitOnce(text, "SP"))[1] ELSE text

\* Display of Command
CommandToString(command) ==
    IF command.name = "MyID" THEN <<"/", "myid">>
    ELSE IF command.name = "MyAddr" THEN <<"/", "myaddr">>
    ELSE IF command.name = "DiscoveredPeers" THEN <<"/", "discovered_peers">>
    ELSE IF command.name = "Send" THEN <<"/", "send", "SP">> \o command.file_name
    ELSE <<"/", "send_to", "SP">> \o ToDigits(command.peer_id) \o <<"SP">> \o command.file_name

\* the file names and peer ids of the commands of the model
IpcFileNames ==
    {<<>>, <<"a.txt">>, <<"a", "SP", "b">>, <<"SP", "a.txt">>, <<"a.txt", "SP">>, <<"SP">>,
     <<"/", "d", "/", "a.txt">>, <<"4", "2">>, <<"/", "myid">>}
IpcPeerIds == {0, 7, 42, 100}

\* the values of Command
IpcCommands ==
    {CommandOf("MyID", 0, <<>>), CommandOf("MyAddr", 0, <<>>),
     CommandOf("DiscoveredPeers", 0, <<>>)}
    \cup {CommandOf("Send", 0, f) : f \in IpcFileNames}
    \cup {CommandOf("SendTo", id, f) : id \in IpcPeerIds, f \in IpcFileNames}

\* a from_str that takes the first word of the rest as the file name of send_to
CommandFromStr_FirstWord(text) ==
    IF text = <<>> \/ Head(text) # "/" THEN None
    ELSE LET v == Tail(text)
             split == SplitOnce(v, "SP")
             cmd == IF IsSome(split) THEN Unwrap(split)[1] ELSE v
             args == IF IsSome(split) THEN Unwrap(split)[2] ELSE <<>>
         IN IF cmd = <<"myid">> THEN Some(CommandOf("MyID", 0, <<>>))
            ELSE IF cmd = <<"myaddr">> THEN Some(CommandOf("MyAddr", 0, <<>>))
            ELSE IF cmd = <<"discovered_peers">> THEN Some(CommandOf("DiscoveredPeers", 0, <<>>))
            ELSE IF cmd = <<"send">> THEN Some(CommandOf("Send", 0, args))
            ELSE IF cmd = <<"send_to">>
            THEN LET pair == SplitOnce(args, "SP")
                     peer_id == IF IsSome(pair) THEN ParseU64(Unwrap(pair)[1]) ELSE None
                 IN IF IsSome(peer_id)
                    THEN Some(CommandOf("SendTo", Unwrap(peer_id),
                                        FirstWord(Unwrap(pair)[2])))
                    ELSE None
            ELSE None

\* Command::from_str: Some(command), or None for Err(())
CommandFromStr(text) ==
    IF text = <<>> \/ Head(text) # "/" THEN None
    ELSE LET v == Tail(text)
             split == SplitOnce(v, "SP")
             cmd == IF IsSome(split) THEN Unwrap(split)[1] ELSE v
             args == IF IsSome(split) THEN Unwrap(split)[2] ELSE <<>>
         IN IF cmd = <<"myid">> THEN Some(CommandOf("MyID", 0, <<>>))
            ELSE IF cmd = <<"myaddr">> THEN Some(CommandOf("MyAddr", 0, <<>>))
            ELSE IF cmd = <<"discovered_peers">> THEN Some(CommandOf("DiscoveredPeers", 0, <<>>))
            ELSE IF cmd = <<"send">> THEN Some(CommandOf("Send", 0, args))
            ELSE IF cmd = <<"send_to">>
            THEN LET pair == SplitOnce(args, "SP")
                     peer_id == IF IsSome(pair) THEN ParseU64(Unwrap(pair)[1]) ELSE None
                 IN IF IsSome(peer_id)
                    THEN Some(CommandOf("SendTo", Unwrap(peer_id), Unwrap(pair)[2]))
                    ELSE None
            ELSE None

\* IPCServer::recv_message on the connection c: Ok(message) as Some, or the
\* kind of the io::Error
RecvMessage(c) ==
    IF c.fate = "accept error" THEN [msg |-> None, err |-> "accept"]
    ELSE IF c.fate = "read error" THEN [msg |-> None, err |-> "read"]
    ELSE IF ~IsUtf8(c.request) THEN [msg |-> None, err |-> "invalid data"]
    ELSE LET command == CommandFromStr(c.request)
         IN IF IsSome(command) THEN [msg |-> command, err |-> ""]
            ELSE [msg |-> None, err |-> "invalid command"]

InitIpc ==
    /\ ipcConns = <<>>
    /\ ipcMade = 0
    /\ ipcpc = "next"
    /\ ipcMsg = None
    /\ ipcErr = ""

\* a client connects, writes its request and shuts its end down
IpcConnect(request, fate) ==
    /\ UNCHANGED <<codecVars, discoveryVars, transferVars>>
    /\ ipcMade < MaxIpcConns
    /\ ipcMade' = ipcMade + 1
    /\ ipcConns' = Append(ipcConns, [request |-> request, fate |-> fate])
    /\ UNCHANGED <<ipcpc, ipcMsg, ipcErr>>

\* the for loop calls IncomingMessages::next: recv_message().ok(); Some(message)
\* enters the body, None ends the loop
IpcNext ==
    /\ UNCHANGED <<codecVars, discoveryVars, transferVars>>
    /\ ipcpc = "next"
    /\ ipcConns # <<>>
    /\ LET r == RecvMessage(Head(ipcConns))
       IN /\ ipcMsg' = r.msg
          /\ ipcErr' = r.err
          /\ ipcpc' = IF IsSome(r.msg) THEN "body" ELSE "ended"
    /\ ipcConns' = Tail(ipcConns)
    /\ UNCHANGED ipcMade

\* the body of the loop handles the message and drops it
IpcBody ==
    /\ UNCHANGED <<codecVars, discoveryVars, transferVars>>
    /\ ipcpc = "body"
    /\ ipcpc' = "next"
    /\ ipcMsg' = None
    /\ UNCHANGED <<ipcConns, ipcMade, ipcErr>>

NextIpc ==
    \/ \E request \in IpcRequests, fate \in IpcFates : IpcConnect(request, fate)
    \/ IpcNext
    \/ IpcBody

\* the server and clients that write what Display gives for a command
NextCommands ==
    \/ \E command \in IpcCommands : IpcConnect(CommandToString(command), "ok")
    \/ IpcNext
    \/ IpcBody

\* C40: the server that reads the text Display gives for a command gets that
\* very command from from_str, for the commands without arguments, for Send
\* and for SendTo with any file name: empty, with spaces inside, in front or
\* at the end, with slashes or digits.
C40_CommandRoundTrip ==
    [][\A command \in IpcCommands :
           (/\ ipcpc = "next" /\ ipcConns # <<>> /\ ipcConns' = Tail(ipcConns)
            /\ Head(ipcConns).fate = "ok"
            /\ Head(ipcConns).request = CommandToString(command))
               => (ipcMsg' = Some(command) /\ ipcpc' = "body")]_vars

\* the server holds a send_to whose file name has a space in it
C40_Witness ==
    /\ ipcpc = "body"
    /\ ipcMsg = Some(CommandOf("SendTo", 42, <<"a", "SP", "b">>))

\* C30: the loop over incoming_messages() never ends, whatever the clients
\* send and whatever error accept or the read returns.
C30_LoopNeverEnds == ipcpc # "ended"

-----------------------------------------------------------------------------
(* The peer as a whole. App::run of src/src/app.rs starts the data receiver *)
(* and the discovery listener in threads of their own, announces the peer   *)
(* and then runs the event loop. The position of run is read from the       *)
(* results of its calls: each `?` returns the error of a call that failed.  *)

ReceiverStarted == rpc \in {"accept", "reading"}

\* what the other hosts send to the peer during a run of the peer
PeerClientBytes ==
    {<<"file_name", ":", "SP", "c.txt", "NL", ":", ":", "w">>, <<"junk">>}
PeerDatagrams ==
    {d \in Datagrams : d.src = "192.168.1.20" /\ d.kind \in {"valid", "missing id"}
                        /\ (d.kind = "valid" => Head(d.bytes) = "id")}
MaxPeerDatagrams == 1

\* self.start_data_receiver(): bind, local_addr and the spawn of the thread
\* succeed, or one of them fails and the error is returned
RunStartDataReceiver ==
    /\ UNCHANGED <<ipcVars, codecVars, discoveryVars>>
    /\ rpc = "unbound"
    /\ rpc' \in {"accept", "failed"}
    /\ UNCHANGED <<receiverImpl, senderVars, conns, nAccepted, events, files>>

\* the start of the discovery listener, reached after start_data_receiver()?
RunStartDiscovery == ReceiverStarted /\ DiscovererStart

\* announce_device, entered without a look at the result of the start of the listener
RunAnnounceBind_Unchecked == startResult # "none" /\ AnnounceBind

\* the announcement, reached after the `?` on the start of the listener
RunAnnounceBind == startResult = "ok" /\ AnnounceBind

\* the event loop, reached after the `?` on the announcement
RunHandleEvent == announceResult = "ok" /\ AppHandleEvent

\* another TCP client reaches the listener once it is bound
PeerConnect == ReceiverStarted /\ ClientConnectWith(PeerClientBytes)

\* a listener that is polled by the thread of the transfers, between two of them
PeerListenerRecv_InTransferThread ==
    /\ rpc # "reading" /\ spc # "connect"
    /\ nrecv < MaxPeerDatagrams /\ ListenerRecvFrom(PeerDatagrams)

\* the listener in its thread: recv_from returns when a datagram is there
PeerListenerRecv == nrecv < MaxPeerDatagrams /\ ListenerRecvFrom(PeerDatagrams)

\* the steps of the thread that called run
RunStep ==
    \/ RunStartDataReceiver
    \/ RunStartDiscovery
    \/ RunAnnounceBind
    \/ AnnounceSetLoop
    \/ AnnounceSend
    \/ RunHandleEvent

\* run has returned the error of the call that failed
RunReturnedErr == rpc = "failed" \/ startResult = "err" \/ announceResult = "err"

InitApp ==
    /\ receiverImpl = "app"
    /\ spc = "idle"
    /\ sAddrs = <<>>
    /\ sFile = NoFile
    /\ sData = <<>>
    /\ sIdx = 0
    /\ sResult = NoResult
    /\ attempted = {}
    /\ delivered = {}
    /\ conns = <<>>
    /\ nAccepted = 0
    /\ rpc = "unbound"
    /\ events = <<>>
    /\ files = EmptyMap

\* the startup of the peer, its threads and its event loop
NextApp ==
    \/ RunStartDataReceiver
    \/ RunStartDiscovery
    \/ RunAnnounceBind
    \/ AnnounceSetLoop
    \/ AnnounceSend
    \/ RunHandleEvent
    \/ ListenerBind
    \/ PeerListenerRecv
    \/ ListenerTryLock
    \/ ListenerInsert
    \/ PeerConnect
    \/ ClientClose
    \/ ReceiverAccept
    \/ ReceiverRead

\* the two kinds of Event of the channel of the event loop
IsDataReceived(e) == "file_name" \in DOMAIN e
IsNewDeviceDiscovered(e) == "peer_id" \in DOMAIN e

\* one iteration of the loop of discover_local_devices: recv_from,
\* parse_packet, the substitution of the source IP, and the send of the
\* device through the channel, which fails only when the receiving end is gone
DeviceListenerEmit ==
    /\ UNCHANGED <<ipcVars, codecVars, announceVars, poisoned>>
    /\ lpc = "recv"
    /\ nrecv < MaxDeviceDatagrams
    /\ nrecv' = nrecv + 1
    /\ \/ /\ lpc' = "recv"
          /\ outcome' = "recv error"
          /\ events' = events
       \/ \E d \in DeviceDatagrams :
             LET r == ParsePacket(d.bytes)
             IN IF r.panics
                THEN lpc' = "panicked" /\ outcome' = "invalid text" /\ events' = events
                ELSE IF ~IsSome(r.parsed)
                THEN lpc' = "recv" /\ outcome' = "malformed" /\ events' = events
                ELSE /\ lpc' = "recv"
                     /\ \/ /\ outcome' = "decoded"
                           /\ events' = Append(events,
                                  [peer_id |-> Unwrap(r.parsed).peer_id,
                                   peer_addr |-> StoredAddr(Unwrap(r.parsed).peer_addr, d.src)])
                        \/ /\ RunReturnedErr
                           /\ outcome' = "send error"
                           /\ events' = events
    /\ UNCHANGED <<startResult, peers, lockHolder, ann, lastDecoded, skippedIds, qpc, qres>>
    /\ UNCHANGED <<receiverImpl, senderVars, conns, nAccepted, rpc, files>>

\* the event loop takes Event::DataReceived
RunHandleDataReceived ==
    /\ announceResult = "ok"
    /\ events # <<>>
    /\ IsDataReceived(Head(events))
    /\ AppHandleEvent

\* an event loop that takes the event sent last
RunHandleNewDevice_Newest ==
    /\ UNCHANGED <<ipcVars, codecVars, announceVars, poisoned>>
    /\ announceResult = "ok"
    /\ events # <<>>
    /\ IsNewDeviceDiscovered(events[Len(events)])
    /\ events' = SubSeq(events, 1, Len(events) - 1)
    /\ peers' = MapInsert(peers, events[Len(events)].peer_id, events[Len(events)].peer_addr)
    /\ UNCHANGED <<startResult, lpc, lockHolder, ann, nrecv, outcome, lastDecoded, skippedIds,
                   qpc, qres>>
    /\ UNCHANGED <<receiverImpl, senderVars, conns, nAccepted, rpc, files>>

\* the event loop takes Event::NewDeviceDiscovered and inserts the device
RunHandleNewDevice ==
    /\ UNCHANGED <<ipcVars, codecVars, announceVars, poisoned>>
    /\ announceResult = "ok"
    /\ events # <<>>
    /\ IsNewDeviceDiscovered(Head(events))
    /\ events' = Tail(events)
    /\ peers' = MapInsert(peers, Head(events).peer_id, Head(events).peer_addr)
    /\ UNCHANGED <<startResult, lpc, lockHolder, ann, nrecv, outcome, lastDecoded, skippedIds,
                   qpc, qres>>
    /\ UNCHANGED <<receiverImpl, senderVars, conns, nAccepted, rpc, files>>

\* the peer whose threads speak to the event loop through the channel
NextEvents ==
    \/ RunStartDataReceiver
    \/ RunStartDiscovery
    \/ RunAnnounceBind
    \/ AnnounceSetLoop
    \/ AnnounceSend
    \/ ListenerBind
    \/ DeviceListenerEmit
    \/ PeerConnect
    \/ ClientClose
    \/ ReceiverAccept
    \/ ReceiverRead
    \/ RunHandleDataReceived
    \/ RunHandleNewDevice

\* the calls of the peer's own sender: a file to a peer that accepts or to an
\* address where nobody listens
PeerAddrLists == {<<"P">>, <<"X">>}
PeerSendFiles == {f \in SendFiles : f.kind = "file" /\ f.contents = <<"x", "y", "z">>}

\* the thread of the peer that asks the registry
PeerQuerier == "q1"

\* the listener and the callers of the query functions, each call in two
\* steps: the call, which may have to wait, and the return of lock()
NextQueries ==
    \/ DiscovererStart
    \/ ListenerBind
    \/ PeerListenerRecv
    \/ ListenerTryLock
    \/ ListenerInsert
    \/ \E q \in Queriers : QueryCall(q, "ids", 0)
    \/ \E q \in Queriers : QueryCall(q, "addrs", 0)
    \/ \E q \in Queriers, id \in PeerIds : QueryCall(q, "find", id)
    \/ \E q \in Queriers : QueryAcquire(q)
    \/ \E q \in Queriers : QueryPanic(q)
    \/ \E q \in Queriers : QueryReturn(q)

\* the scheduling of the threads: a thread that can take a step of its own
\* code takes it; a caller that waits for the mutex gets it when the mutex is
\* free again and again. recv_from is left without fairness: the network may
\* stay silent.
FairQueries ==
    /\ WF_vars(ListenerTryLock)
    /\ WF_vars(ListenerInsert)
    /\ \A q \in Queriers : SF_vars(QueryAcquire(q))
    /\ \A q \in Queriers : WF_vars(QueryReturn(q))

\* the threads of a peer that is up: the discovery listener, the callers of
\* the queries, the file receiver, the event loop and the sender
NextThreads ==
    \/ DiscovererStart
    \/ ListenerBind
    \/ PeerListenerRecv
    \/ ListenerTryLock
    \/ ListenerInsert
    \/ QueryLock(PeerQuerier, "ids", 0)
    \/ QueryLock(PeerQuerier, "addrs", 0)
    \/ \E id \in PeerIds : QueryLock(PeerQuerier, "find", id)
    \/ QueryReturn(PeerQuerier)
    \/ \E addrs \in PeerAddrLists, file \in PeerSendFiles : SendStart(addrs, file)
    \/ SendToAddr
    \/ ClientConnectWith(PeerClientBytes)
    \/ ClientClose
    \/ ReceiverAccept
    \/ ReceiverRead
    \/ AppHandleEvent

-----------------------------------------------------------------------------
(* Claims about the peer as a whole *)

\* C24: a step changes the registry only if it is the insert of the listener,
\* which stores the announcement the listener holds; a step of a query, of the
\* sender, of the receiver or of the event loop leaves the registry as it is.
C24_OnlyListenerWrites ==
    [][/\ peers' # peers =>
            /\ lpc = "locked" /\ lpc' = "recv"
            /\ peers' = MapInsert(peers, ann.peer_id, ann.peer_addr)
       /\ (qpc' # qpc \/ qres' # qres \/ transferVars' # transferVars) => peers' = peers]_vars

\* the registry holds an entry, a find has answered it, a file was sent and a
\* file was received and written
C24_Witness ==
    /\ peers # EmptyMap
    /\ qres.kind = "find" /\ IsSome(qres.answer) /\ qpc[PeerQuerier].pc = "idle"
    /\ spc = "done" /\ delivered # {}
    /\ files # EmptyMap

\* C28: the announcement begins only after start_data_receiver and the start
\* of the discovery listener have returned Ok; when one of the two fails, run
\* has returned the error, takes no further step and nothing was announced;
\* the event loop runs only after the announcement was sent; and once it was
\* sent, no step of the announcement happens again.
C28_AnnounceAfterStartup ==
    /\ [](apc # "idle" => ReceiverStarted /\ startResult = "ok")
    /\ []((rpc = "failed" \/ startResult = "err")
            => RunReturnedErr /\ apc = "idle" /\ announceResult = "none" /\ ~ENABLED RunStep)
    /\ [](files # EmptyMap => announceResult = "ok")
    /\ [][announceResult = "ok" => UNCHANGED <<apc, announceResult, sockLoop>>]_vars

\* the receiver and the listener were started, the announcement was sent and
\* the event loop has written a file
C28_Witness ==
    /\ ReceiverStarted /\ startResult = "ok" /\ lpc = "recv"
    /\ apc = "done" /\ announceResult = "ok"
    /\ files # EmptyMap

\* what the event loop does with the event e
HandledAs(e) ==
    IF IsNewDeviceDiscovered(e)
    THEN peers' = MapInsert(peers, e.peer_id, e.peer_addr) /\ files' = files
    ELSE /\ peers' = peers
         /\ files' = IF WriteFails(e.file_name) THEN files
                     ELSE MapInsert(files, e.file_name, [contents |-> e.contents, conn |-> e.conn])

\* C39: the map of the discovered devices changes only when the event loop
\* takes a NewDeviceDiscovered from the head of the channel; the channel
\* changes only by an event put at its end, which touches neither the map nor
\* the files, or by the event loop that takes the event at its head and
\* handles that event; and while the loop runs, an event that waits can be taken.
C39_EventsInOrder ==
    /\ [][(peers' # peers) =>
             /\ announceResult = "ok" /\ events # <<>>
             /\ IsNewDeviceDiscovered(Head(events))
             /\ events' = Tail(events)]_vars
    /\ [][(events' # events) =>
             \/ /\ Len(events') = Len(events) + 1
                /\ SubSeq(events', 1, Len(events)) = events
                /\ peers' = peers /\ files' = files
             \/ /\ announceResult = "ok" /\ events # <<>>
                /\ events' = Tail(events)
                /\ HandledAs(Head(events))]_vars
    /\ []((announceResult = "ok" /\ events # <<>>)
            => ENABLED (RunHandleDataReceived \/ RunHandleNewDevice))

\* two devices and a file went through the channel and the loop has handled
\* all three
C39_Witness ==
    /\ announceResult = "ok" /\ events = <<>>
    /\ Cardinality(DOMAIN peers) = 2
    /\ files # EmptyMap

\* the receiver waits in read_to_end for a client that keeps its stream open;
\* the sender is inside its loop of connect and write_all
ReceiverBlocked == rpc = "reading" /\ conns[nAccepted].state = "open"
SenderBusy == spc = "connect"

\* C29: while the receiver is blocked in a read or the sender is in its loop,
\* the listener can take its next step: receive a datagram that arrives, try
\* the lock, store the announcement.
C29_DiscoveryNotDelayed ==
    (ReceiverBlocked \/ SenderBusy) =>
        /\ (lpc = "recv" /\ nrecv < MaxPeerDatagrams /\ nrecv < MaxDatagrams)
               => ENABLED PeerListenerRecv
        /\ lpc = "trylock" => ENABLED ListenerTryLock
        /\ lpc = "locked" => ENABLED ListenerInsert

\* the receiver is blocked, the sender is in its loop, and the listener has
\* the lock and is about to store an announcement
C29_Witness ==
    /\ ReceiverBlocked /\ SenderBusy
    /\ lpc = "locked" /\ lockHolder = "listener"

-----------------------------------------------------------------------------
(* Specifications: one for each part of the program; the other parts idle *)

InitCodecSpec == InitCodec /\ InitDiscovery /\ InitTransfer /\ receiverImpl = "receiver" /\ InitIpc
SpecCodec == InitCodecSpec /\ [][NextCodec]_vars

InitDiscoverySpec == InitCodec /\ InitDiscovery /\ InitTransfer /\ receiverImpl = "receiver" /\ InitIpc
SpecDiscovery == InitDiscoverySpec /\ [][NextDiscovery]_vars

InitAnnounceSpec == InitCodec /\ InitDiscovery /\ InitTransfer /\ receiverImpl = "receiver" /\ InitIpc
SpecAnnounce == InitAnnounceSpec /\ [][NextAnnounce]_vars

InitTransferSpec == InitCodec /\ InitDiscovery /\ InitTransfer /\ InitIpc
SpecTransfer == InitTransferSpec /\ [][NextTransfer]_vars

InitReceiveSpec == InitCodec /\ InitDiscovery /\ InitTransfer /\ InitIpc
SpecReceive == InitReceiveSpec /\ [][NextReceive]_vars

InitAppSpec == InitCodec /\ InitDiscovery /\ InitApp /\ InitIpc
SpecApp == InitAppSpec /\ [][NextApp]_vars

InitSendSpec == InitCodec /\ InitDiscovery /\ InitFilePacket /\ InitIpc
SpecSend == InitSendSpec /\ [][NextSend]_vars

SpecFilePacket == InitSendSpec /\ [][NextFilePacket]_vars

SpecQueries == InitDiscoverySpec /\ [][NextQueries]_vars /\ FairQueries

SpecDevices == InitDiscoverySpec /\ [][NextDevices]_vars

SpecEvents == InitAppSpec /\ [][NextEvents]_vars

InitIpcSpec == InitCodec /\ InitDiscovery /\ InitTransfer /\ receiverImpl = "receiver" /\ InitIpc
SpecIpc == InitIpcSpec /\ [][NextIpc]_vars
SpecCommands == InitIpcSpec /\ [][NextCommands]_vars

InitThreadsSpec == InitCodec /\ InitDiscovery /\ InitTransfer /\ receiverImpl = "app" /\ InitIpc
SpecThreads == InitThreadsSpec /\ [][NextThreads]_vars

=============================================================================
